---- MODULE Spec2Model ----
(***************************************************************************)
(* Foodgram backend: the relational store (Recipe, RecipeIngredient, the   *)
(* recipe/tag links, Favorite, ShoppingCart, Follow) and the request       *)
(* handlers that mutate it.  The repository carries two generations of     *)
(* handlers over the same schema: the api package (api/views.py,           *)
(* api/serializers.py) and the per-app ones (recipes/views.py,             *)
(* recipes/serializers.py, users/views.py).  Both are modelled; a handler  *)
(* of the api package is prefixed Api, one of the per-app code Recipes or  *)
(* Users.  Every handler is one atomic action: permission check,           *)
(* serializer validation, the writes, the response.                        *)
(***************************************************************************)
EXTENDS Integers, Sequences, FiniteSets, Bags, TLC

(***************************************************************************)
(* Bounds of the model.                                                    *)
(***************************************************************************)
\* Recipe rows ever inserted (the auto-increment id stops here).
MaxRecipes == 2
\* Longest ingredients list of a request body.
MaxIngredients == 2
\* Longest tags list of a request body.
MaxTags == 2

(***************************************************************************)
(* foodgram/constants.py is not among the sources; its limits are scaled   *)
(* down so that MIN-1, MIN, MAX and MAX+1 are all request values.          *)
(***************************************************************************)
MIN_COOKING_TIME == 1
MAX_COOKING_TIME == 2
MIN_AMOUNT == 1
MAX_AMOUNT == 2

(***************************************************************************)
(* Rows that exist before any request: users, tags, ingredients.           *)
(***************************************************************************)
User == {"alice", "bob"}
AnonymousUser == "AnonymousUser"

Tag == {1, 2}

\* Two rows sharing a name and differing in unit (unique_ingredient is on
\* the pair).
Ingredient ==
    (1 :> [name |-> "salt", measurement_unit |-> "g"]) @@
    (2 :> [name |-> "salt", measurement_unit |-> "tsp"])

\* An id no Ingredient row has.
MissingIngredientIds == {3}

\* The tokens secrets.token_urlsafe(4)[:6] can return, scaled down to
\* three; 0 stands for the blank short_code of an unsaved instance.
Codes == {1, 2, 3}

VARIABLES
    recipes,             \* Recipe rows: id -> [author, cooking_time, short_code]
    next_id,             \* the Recipe table's auto-increment counter
    recipe_tags,         \* the Recipe.tags link table: {<<recipe, tag>>}
    recipe_ingredients,  \* RecipeIngredient rows: {[recipe, ingredient, amount]}
    favorites,           \* Favorite rows: {<<user, recipe>>}
    shopping_cart,       \* ShoppingCart rows: {<<user, recipe>>}
    follows,             \* Follow rows: {<<user, author>>}
    response,            \* the last request handled and the answer it got
    users,               \* User rows: the set of their ids
    pending,             \* client -> the request it has in flight, statement
                         \* by statement, in the specifications that
                         \* interleave requests
    row_bags,            \* table name -> bag of <<user, target>> rows, in the
                         \* specifications where two inserts of one pair race
    ingredient_names,    \* Ingredient.name, letter by letter: id -> sequence
    accounts             \* columns of the User rows: id -> [first_name,
                         \* avatar, password]; for an id outside users, the
                         \* columns its row had

recipeVars == <<recipes, next_id, recipe_tags, recipe_ingredients>>
relationVars == <<favorites, shopping_cart, follows>>
\* What a handler that runs as one step leaves alone.
stepVars == <<users, pending, row_bags, ingredient_names, accounts>>
vars == <<recipes, next_id, recipe_tags, recipe_ingredients,
          favorites, shopping_cart, follows, response, users, pending,
          row_bags, ingredient_names, accounts>>

(***************************************************************************)
(* Request bodies.  keys is the set of fields the body carries; a field    *)
(* that is not in keys holds its filler value and is never read.           *)
(***************************************************************************)
Range(s) == {s[i] : i \in DOMAIN s}

SeqsUpTo(S, n) == UNION {[1..k -> S] : k \in 0..n}

\* len(ids) != len(set(ids))
HasDuplicates(s) == Len(s) # Cardinality(Range(s))

NoData == [keys |-> {}, ingredients |-> <<>>, tags |-> <<>>, cooking_time |-> 0]

NoBody == EmptyBag

Answer(op, impl, user, target, data, status, body) ==
    [op |-> op, impl |-> impl, user |-> user, target |-> target,
     data |-> data, status |-> status, body |-> body]


(***************************************************************************)
(* Field validation the serializers inherit from the model fields.         *)
(***************************************************************************)
\* Recipe.cooking_time with the MaxValueValidator left out.
cooking_time_field_NoMax(value) == MIN_COOKING_TIME <= value

\* Recipe.cooking_time: MinValueValidator / MaxValueValidator.
cooking_time_field(value) ==
    MIN_COOKING_TIME <= value /\ value <= MAX_COOKING_TIME

\* RecipeIngredient.amount: MinValueValidator / MaxValueValidator.
amount_field(value) ==
    MIN_AMOUNT <= value /\ value <= MAX_AMOUNT

(***************************************************************************)
(* api/serializers.py                                                      *)
(***************************************************************************)
\* One item of the ingredients list: id is a primary key of an existing
\* Ingredient row, amount is the model field.
RecipeIngredientWriteSerializer(item) ==
    /\ item.id \in DOMAIN Ingredient
    /\ amount_field(item.amount)

\* The declared fields: required unless the update is partial, lists
\* allow_empty=False, every element valid.
Api_fields(data, partial) ==
    /\ IF "ingredients" \in data.keys
         THEN /\ data.ingredients # <<>>
              /\ \A i \in DOMAIN data.ingredients :
                    RecipeIngredientWriteSerializer(data.ingredients[i])
         ELSE partial
    /\ IF "tags" \in data.keys
         THEN /\ data.tags # <<>>
              /\ \A i \in DOMAIN data.tags : data.tags[i] \in Tag
         ELSE partial
    /\ IF "cooking_time" \in data.keys
         THEN cooking_time_field(data.cooking_time)
         ELSE partial

\* validate() without the comparison of len(ingredient_ids) to the set's.
Api_validate_NoRepeatCheck(data) ==
    LET ingredients == IF "ingredients" \in data.keys
                         THEN data.ingredients ELSE <<>>
        tags == IF "tags" \in data.keys THEN data.tags ELSE <<>>
    IN  /\ ingredients # <<>>
        /\ tags # <<>>
        /\ ~HasDuplicates(tags)

\* RecipeWriteSerializer.validate: data.get(..., []) must be non-empty and
\* free of repeated ids, for ingredients and then for tags.
Api_validate(data) ==
    LET ingredients == IF "ingredients" \in data.keys
                         THEN data.ingredients ELSE <<>>
        ingredient_ids == [i \in DOMAIN ingredients |-> ingredients[i].id]
        tags == IF "tags" \in data.keys THEN data.tags ELSE <<>>
    IN  /\ ingredients # <<>>
        /\ ~HasDuplicates(ingredient_ids)
        /\ tags # <<>>
        /\ ~HasDuplicates(tags)

\* serializer.is_valid(): the fields first, validate() only when they pass.
Api_is_valid(data, partial) ==
    Api_fields(data, partial) /\ Api_validate(data)

(***************************************************************************)
(* recipes/serializers.py                                                  *)
(***************************************************************************)
\* validate_ingredients without the lookup of the ids in Ingredient.
validate_ingredients_NoLookup(value) ==
    LET ingredients_id == [i \in DOMAIN value |-> value[i].id]
    IN  /\ value # <<>>
        /\ ~HasDuplicates(ingredients_id)
        /\ \A i \in DOMAIN value : ~(value[i].amount < 1)

\* validate_ingredients: the items are unvalidated dicts.
validate_ingredients(value) ==
    LET ingredients_id == [i \in DOMAIN value |-> value[i].id]
    IN  /\ value # <<>>
        /\ ~HasDuplicates(ingredients_id)
        /\ \A i \in DOMAIN value :
              /\ value[i].id \in DOMAIN Ingredient
              /\ ~(value[i].amount < 1)

\* validate_tags without the comparison of len(value) to the set's.
validate_tags_NoRepeatCheck(value) == value # <<>>

validate_tags(value) ==
    /\ value # <<>>
    /\ ~HasDuplicates(value)

validate_cooking_time(value) == ~(value < 1)

\* ingredients = ListField(child=DictField(), allow_empty=False), tags a
\* primary-key list, cooking_time the model field; each followed by its
\* validate_<field> method.
Recipes_fields(data, partial) ==
    /\ IF "ingredients" \in data.keys
         THEN data.ingredients # <<>> /\ validate_ingredients(data.ingredients)
         ELSE partial
    /\ IF "tags" \in data.keys
         THEN /\ data.tags # <<>>
              /\ \A i \in DOMAIN data.tags : data.tags[i] \in Tag
              /\ validate_tags(data.tags)
         ELSE partial
    /\ IF "cooking_time" \in data.keys
         THEN /\ cooking_time_field(data.cooking_time)
              /\ validate_cooking_time(data.cooking_time)
         ELSE partial

\* validate() without the tests of a PATCH body.
Recipes_validate_NoPatchTest(data, method) == TRUE

\* RecipeWriteSerializer.validate: a PATCH must carry both lists.
Recipes_validate(data, method) ==
    method = "PATCH" =>
        ("ingredients" \in data.keys /\ "tags" \in data.keys)

Recipes_is_valid(data, method) ==
    Recipes_fields(data, method = "PATCH") /\ Recipes_validate(data, method)

(***************************************************************************)
(* recipes/models.py                                                       *)
(***************************************************************************)
\* Recipe.objects.filter(short_code=code).exists()
\* The existence test finding no row, whatever is stored.
ShortCodeExists_Never(code) == FALSE

ShortCodeExists(code) ==
    \E r \in DOMAIN recipes : recipes[r].short_code = code

\* save() without its "if not self.short_code": a token is drawn on every
\* save.
save_Redraw(short_code) ==
    {code \in Codes : ~ShortCodeExists(code)}

\* Recipe.save: the short codes the instance can leave save() with.  A
\* blank code (0) is replaced by a drawn token that no stored recipe has;
\* the loop draws again on a collision.  A code already set is kept.
save(short_code) ==
    IF short_code = 0
      THEN {code \in Codes : ~ShortCodeExists(code)}
      ELSE {short_code}

\* The column without unique=True.
unique_short_code_Unconstrained(id, code) == TRUE

\* Recipe.short_code unique=True: the row write fails when another row
\* holds the code.
unique_short_code(id, code) ==
    \A r \in DOMAIN recipes \ {id} : recipes[r].short_code # code

RowOf(recipe, item) ==
    [recipe |-> recipe, ingredient |-> item.id, amount |-> item.amount]

\* A RecipeIngredient insert: the ingredient foreign key must resolve and
\* unique_recipe_ingredient must hold.
Insertable(table, row) ==
    /\ row.ingredient \in DOMAIN Ingredient
    /\ ~\E x \in table :
          x.recipe = row.recipe /\ x.ingredient = row.ingredient

\* The cascade without the Favorite rows: as if Favorite.recipe were not
\* on_delete=CASCADE.
CascadeRecipe_KeepFavorites(id) ==
    /\ recipe_tags' = {l \in recipe_tags : l[1] # id}
    /\ recipe_ingredients' = {x \in recipe_ingredients : x.recipe # id}
    /\ favorites' = favorites
    /\ shopping_cart' = {c \in shopping_cart : c[2] # id}

\* on_delete=CASCADE from the recipe foreign keys.
CascadeRecipe(id) ==
    /\ recipe_tags' = {l \in recipe_tags : l[1] # id}
    /\ recipe_ingredients' = {x \in recipe_ingredients : x.recipe # id}
    /\ favorites' = {f \in favorites : f[2] # id}
    /\ shopping_cart' = {c \in shopping_cart : c[2] # id}


(***************************************************************************)
(* Writes of the recipe serializers.  Every ORM statement commits on its   *)
(* own; a statement the schema refuses raises IntegrityError, the request  *)
(* is answered 500 and the statements before it stay committed.            *)
(***************************************************************************)
\* RecipeIngredient.objects.bulk_create: one INSERT of all the rows.
Api_create_recipe_ingredients(table, recipe, ingredients_data) ==
    LET rows == {RowOf(recipe, ingredients_data[i]) :
                    i \in DOMAIN ingredients_data}
        ids == [i \in DOMAIN ingredients_data |-> ingredients_data[i].id]
        ok == /\ ~HasDuplicates(ids)
              /\ \A row \in rows : Insertable(table, row)
    IN  [ok |-> ok, table |-> IF ok THEN table \cup rows ELSE table]

\* for ingredient_data in ingredients_data:
\*     RecipeIngredient.objects.create(...)
RECURSIVE Recipes_create_recipe_ingredients(_, _, _)
Recipes_create_recipe_ingredients(table, recipe, ingredients_data) ==
    IF ingredients_data = <<>>
      THEN [ok |-> TRUE, table |-> table]
      ELSE LET row == RowOf(recipe, Head(ingredients_data))
           IN  IF Insertable(table, row)
                 THEN Recipes_create_recipe_ingredients(
                          table \cup {row}, recipe, Tail(ingredients_data))
                 ELSE [ok |-> FALSE, table |-> table]

\* Meta.fields of RecipeWriteSerializer, the same in both packages: the
\* keys of a request body that reach validated_data.  'author' is not one.
Meta_fields ==
    {"ingredients", "tags", "name", "image", "text", "cooking_time"}

\* to_internal_value that lets every key of the body through.
to_internal_value_AllKeys(data) == data

\* ModelSerializer.to_internal_value: a key of the body that is no declared
\* field is dropped.
to_internal_value(data) == [data EXCEPT !.keys = @ \cap Meta_fields]

\* What update()'s setattr loop (super().update in the api package) leaves
\* in instance.author: validated_data's value when it carries one.
setattr_author(instance, validated_data) ==
    IF "author" \in validated_data.keys
      THEN validated_data.author
      ELSE instance.author

\* RecipeWriteSerializer.create of the api package: the Recipe row (its
\* save() assigns the short code), tags.set, then bulk_create of the rows.
Api_create(user, data, short_code) ==
    LET id == next_id
        written == Api_create_recipe_ingredients(
                       recipe_ingredients, id, data.ingredients)
    IN  IF ~unique_short_code(id, short_code)
          THEN /\ UNCHANGED recipeVars
               /\ response' = Answer("create", "api", user, 0, data, 500, NoBody)
          ELSE /\ recipes' = recipes @@
                     (id :> [author |-> user,
                             cooking_time |-> data.cooking_time,
                             short_code |-> short_code])
               /\ next_id' = next_id + 1
               /\ recipe_tags' = recipe_tags \cup
                     {<<id, t>> : t \in Range(data.tags)}
               /\ recipe_ingredients' = written.table
               /\ response' = Answer("create", "api", user, id, data,
                                     IF written.ok THEN 201 ELSE 500, NoBody)

\* RecipeWriteSerializer.create of recipes/serializers.py: Recipe.objects
\* .create (author passed by perform_create), tags.set, one insert per item.
Recipes_create(user, data, short_code) ==
    LET id == next_id
        written == Recipes_create_recipe_ingredients(
                       recipe_ingredients, id, data.ingredients)
    IN  IF ~unique_short_code(id, short_code)
          THEN /\ UNCHANGED recipeVars
               /\ response' = Answer("create", "recipes", user, 0, data, 500,
                                     NoBody)
          ELSE /\ recipes' = recipes @@
                     (id :> [author |-> user,
                             cooking_time |-> data.cooking_time,
                             short_code |-> short_code])
               /\ next_id' = next_id + 1
               /\ recipe_tags' = recipe_tags \cup
                     {<<id, t>> : t \in Range(data.tags)}
               /\ recipe_ingredients' = written.table
               /\ response' = Answer("create", "recipes", user, id, data,
                                     IF written.ok THEN 201 ELSE 500, NoBody)

\* update() that adds the new tags and rows to the ones the recipe has,
\* without tags.set's removal and without the delete().
Api_update_Merge(op, user, id, data, short_code) ==
    LET written == Api_create_recipe_ingredients(
                       recipe_ingredients, id, data.ingredients)
    IN  /\ recipes' = [recipes EXCEPT ![id] =
              [author |-> @.author,
               cooking_time |-> IF "cooking_time" \in data.keys
                                  THEN data.cooking_time
                                  ELSE @.cooking_time,
               short_code |-> short_code]]
        /\ next_id' = next_id
        /\ recipe_tags' = recipe_tags \cup
              {<<id, t>> : t \in Range(data.tags)}
        /\ recipe_ingredients' = written.table
        /\ response' = Answer(op, "api", user, id, data,
                              IF written.ok THEN 200 ELSE 500, NoBody)

\* RecipeWriteSerializer.update of the api package: the plain fields and
\* save(), tags.set, delete of the rows, bulk_create of the new ones.
Api_update(op, user, id, data, short_code) ==
    LET written == Api_create_recipe_ingredients(
                       {x \in recipe_ingredients : x.recipe # id},
                       id, data.ingredients)
    IN  IF ~unique_short_code(id, short_code)
          THEN /\ UNCHANGED recipeVars
               /\ response' = Answer(op, "api", user, id, data, 500, NoBody)
          ELSE /\ recipes' = [recipes EXCEPT ![id] =
                     [author |-> setattr_author(@, to_internal_value(data)),
                      cooking_time |-> IF "cooking_time" \in data.keys
                                         THEN data.cooking_time
                                         ELSE @.cooking_time,
                      short_code |-> short_code]]
               /\ next_id' = next_id
               /\ recipe_tags' = {l \in recipe_tags : l[1] # id} \cup
                     {<<id, t>> : t \in Range(data.tags)}
               /\ recipe_ingredients' = written.table
               /\ response' = Answer(op, "api", user, id, data,
                                     IF written.ok THEN 200 ELSE 500, NoBody)

\* RecipeWriteSerializer.update of recipes/serializers.py: a list that is
\* None is left alone.
Recipes_update(op, user, id, data, short_code) ==
    LET kept == {x \in recipe_ingredients : x.recipe # id}
        written == IF "ingredients" \in data.keys
                     THEN Recipes_create_recipe_ingredients(
                              kept, id, data.ingredients)
                     ELSE [ok |-> TRUE, table |-> recipe_ingredients]
    IN  IF ~unique_short_code(id, short_code)
          THEN /\ UNCHANGED recipeVars
               /\ response' = Answer(op, "recipes", user, id, data, 500, NoBody)
          ELSE /\ recipes' = [recipes EXCEPT ![id] =
                     [author |-> setattr_author(@, to_internal_value(data)),
                      cooking_time |-> IF "cooking_time" \in data.keys
                                         THEN data.cooking_time
                                         ELSE @.cooking_time,
                      short_code |-> short_code]]
               /\ next_id' = next_id
               /\ recipe_tags' =
                     IF "tags" \in data.keys
                       THEN {l \in recipe_tags : l[1] # id} \cup
                                {<<id, t>> : t \in Range(data.tags)}
                       ELSE recipe_tags
               /\ recipe_ingredients' = written.table
               /\ response' = Answer(op, "recipes", user, id, data,
                                     IF written.ok THEN 200 ELSE 500, NoBody)

(***************************************************************************)
(* api/permissions.py                                                      *)
(***************************************************************************)
\* RecipePermission.has_permission for an unsafe method.
has_permission(method, user) ==
    \/ method = "POST" /\ user # AnonymousUser
    \/ method # "POST"

\* has_object_permission that lets every requester through.
has_object_permission_Anyone(user, id) == TRUE

\* RecipePermission.has_object_permission for an unsafe method.
has_object_permission(user, id) == recipes[id].author = user

\* permission_denied: 401 without credentials, 403 with them.
Denied(user) == IF user = AnonymousUser THEN 401 ELSE 403

OpOf(method) ==
    CASE method = "PUT" -> "update"
      [] method = "PATCH" -> "partial_update"
      [] method = "DELETE" -> "destroy"
      [] OTHER -> "create"

Refuse(op, impl, user, target, data, status) ==
    /\ UNCHANGED recipeVars
    /\ response' = Answer(op, impl, user, target, data, status, NoBody)

(***************************************************************************)
(* api/views.py: RecipeViewSet (POST, PUT, PATCH, DELETE).                 *)
(***************************************************************************)
ApiRecipeCreate(user, data) ==
    /\ next_id <= MaxRecipes
    /\ UNCHANGED relationVars
    /\ IF user = AnonymousUser
         THEN Refuse("create", "api", user, 0, data, 401)
         ELSE IF ~Api_is_valid(data, FALSE)
           THEN Refuse("create", "api", user, 0, data, 400)
           ELSE \E short_code \in save(0) :
                    Api_create(user, data, short_code)

ApiRecipeUpdate(method, user, id, data) ==
    /\ method \in {"PUT", "PATCH"}
    /\ UNCHANGED relationVars
    /\ IF ~has_permission(method, user)
         THEN Refuse(OpOf(method), "api", user, id, data, Denied(user))
         ELSE IF id \notin DOMAIN recipes
           THEN Refuse(OpOf(method), "api", user, id, data, 404)
           ELSE IF ~has_object_permission(user, id)
             THEN Refuse(OpOf(method), "api", user, id, data, Denied(user))
             ELSE IF ~Api_is_valid(data, method = "PATCH")
               THEN Refuse(OpOf(method), "api", user, id, data, 400)
               ELSE \E short_code \in save(recipes[id].short_code) :
                        Api_update(OpOf(method), user, id, data, short_code)

ApiRecipeDestroy(user, id) ==
    IF ~has_permission("DELETE", user)
      THEN /\ Refuse("destroy", "api", user, id, NoData, Denied(user))
           /\ UNCHANGED relationVars
      ELSE IF id \notin DOMAIN recipes
        THEN /\ Refuse("destroy", "api", user, id, NoData, 404)
             /\ UNCHANGED relationVars
        ELSE IF ~has_object_permission(user, id)
          THEN /\ Refuse("destroy", "api", user, id, NoData, Denied(user))
               /\ UNCHANGED relationVars
          ELSE /\ recipes' = [r \in DOMAIN recipes \ {id} |-> recipes[r]]
               /\ next_id' = next_id
               /\ CascadeRecipe(id)
               /\ UNCHANGED follows
               /\ response' = Answer("destroy", "api", user, id, NoData,
                                     204, NoBody)

(***************************************************************************)
(* recipes/views.py: RecipeViewSet (POST, PUT, PATCH, DELETE).             *)
(***************************************************************************)
RecipesRecipeCreate(user, data) ==
    /\ next_id <= MaxRecipes
    /\ UNCHANGED relationVars
    /\ IF user = AnonymousUser
         THEN Refuse("create", "recipes", user, 0, data, 401)
         ELSE IF ~Recipes_is_valid(data, "POST")
           THEN Refuse("create", "recipes", user, 0, data, 400)
           ELSE \E short_code \in save(0) :
                    Recipes_create(user, data, short_code)

RecipesRecipeUpdate(method, user, id, data) ==
    /\ method \in {"PUT", "PATCH"}
    /\ UNCHANGED relationVars
    /\ IF user = AnonymousUser
         THEN Refuse(OpOf(method), "recipes", user, id, data, 401)
         ELSE IF id \notin DOMAIN recipes
           THEN Refuse(OpOf(method), "recipes", user, id, data, 404)
           ELSE IF recipes[id].author # user
             THEN Refuse(OpOf(method), "recipes", user, id, data, 403)
             ELSE IF ~Recipes_is_valid(data, method)
               THEN Refuse(OpOf(method), "recipes", user, id, data, 400)
               ELSE \E short_code \in save(recipes[id].short_code) :
                        Recipes_update(OpOf(method), user, id, data, short_code)

RecipesRecipeDestroy(user, id) ==
    IF user = AnonymousUser
      THEN /\ Refuse("destroy", "recipes", user, id, NoData, 401)
           /\ UNCHANGED relationVars
      ELSE IF id \notin DOMAIN recipes
        THEN /\ Refuse("destroy", "recipes", user, id, NoData, 404)
             /\ UNCHANGED relationVars
        ELSE IF recipes[id].author # user
          THEN /\ Refuse("destroy", "recipes", user, id, NoData, 403)
               /\ UNCHANGED relationVars
          ELSE /\ recipes' = [r \in DOMAIN recipes \ {id} |-> recipes[r]]
               /\ next_id' = next_id
               /\ CascadeRecipe(id)
               /\ UNCHANGED follows
               /\ response' = Answer("destroy", "recipes", user, id, NoData,
                                     204, NoBody)


(***************************************************************************)
(* Favorite and ShoppingCart: the two tables share their handlers, which   *)
(* take the model as a parameter.                                          *)
(***************************************************************************)
Relation(model) == IF model = "Favorite" THEN favorites ELSE shopping_cart

SetRelation(model, rows) ==
    IF model = "Favorite"
      THEN favorites' = rows /\ shopping_cart' = shopping_cart
      ELSE shopping_cart' = rows /\ favorites' = favorites

OpName(model, method) ==
    IF model = "Favorite"
      THEN (IF method = "POST" THEN "favorite" ELSE "delete_favorite")
      ELSE (IF method = "POST" THEN "shopping_cart"
                               ELSE "delete_shopping_cart")

RelationAnswer(model, method, impl, user, id, status) ==
    response' = Answer(OpName(model, method), impl, user, id, NoData, status,
                       NoBody)

\* unique_favorite / unique_shopping_cart: an insert of a pair the table
\* holds raises IntegrityError.
unique_relation(model, user, id) == <<user, id>> \notin Relation(model)

\* validate() that never looks the pair up.
FavoriteShoppingCartSerializer_validate_NoLookup(model, user, id) == TRUE

\* FavoriteShoppingCartSerializer.validate:
\* model.objects.filter(user=user, recipe=recipe).exists() is refused.
FavoriteShoppingCartSerializer_validate(model, user, id) ==
    <<user, id>> \notin Relation(model)

\* The delete's queryset with the user left out of the filter.
Api_delete_queryset_AnyUser(model, user, id) ==
    {row \in Relation(model) : row[2] = id}

\* model.objects.filter(user=request.user, recipe=recipe)
Api_delete_queryset(model, user, id) ==
    {row \in Relation(model) : row[1] = user /\ row[2] = id}

\* RecipeViewSet._add_relation (api/views.py), behind IsAuthenticated.
Api_add_relation(model, user, id) ==
    /\ UNCHANGED <<recipeVars, follows>>
    /\ IF user = AnonymousUser
         THEN /\ SetRelation(model, Relation(model))
              /\ RelationAnswer(model, "POST", "api", user, id, 401)
         ELSE IF id \notin DOMAIN recipes
           THEN /\ SetRelation(model, Relation(model))
                /\ RelationAnswer(model, "POST", "api", user, id, 404)
           ELSE IF ~FavoriteShoppingCartSerializer_validate(model, user, id)
             THEN /\ SetRelation(model, Relation(model))
                  /\ RelationAnswer(model, "POST", "api", user, id, 400)
             ELSE IF ~unique_relation(model, user, id)
               THEN /\ SetRelation(model, Relation(model))
                    /\ RelationAnswer(model, "POST", "api", user, id, 500)
               ELSE /\ SetRelation(model,
                           Relation(model) \cup {<<user, id>>})
                    /\ RelationAnswer(model, "POST", "api", user, id, 201)

\* RecipeViewSet._delete_relation (api/views.py):
\* model.objects.filter(user=request.user, recipe=recipe).delete().
Api_delete_relation(model, user, id) ==
    LET deleted == Api_delete_queryset(model, user, id)
    IN  /\ UNCHANGED <<recipeVars, follows>>
        /\ IF user = AnonymousUser
             THEN /\ SetRelation(model, Relation(model))
                  /\ RelationAnswer(model, "DELETE", "api", user, id, 401)
             ELSE IF id \notin DOMAIN recipes
               THEN /\ SetRelation(model, Relation(model))
                    /\ RelationAnswer(model, "DELETE", "api", user, id, 404)
               ELSE /\ SetRelation(model, Relation(model) \ deleted)
                    /\ RelationAnswer(model, "DELETE", "api", user, id,
                           IF Cardinality(deleted) = 0 THEN 400 ELSE 204)

\* RecipeViewSet._add_remove_relation (recipes/views.py), behind
\* IsAuthenticated.
Recipes_add_remove_relation(model, method, user, id) ==
    LET relation == {row \in Relation(model) : row[1] = user /\ row[2] = id}
    IN  /\ method \in {"POST", "DELETE"}
        /\ UNCHANGED <<recipeVars, follows>>
        /\ IF user = AnonymousUser
             THEN /\ SetRelation(model, Relation(model))
                  /\ RelationAnswer(model, method, "recipes", user, id, 401)
             ELSE IF id \notin DOMAIN recipes
               THEN /\ SetRelation(model, Relation(model))
                    /\ RelationAnswer(model, method, "recipes", user, id, 404)
               ELSE IF method = "POST"
                 THEN IF relation # {}
                        THEN /\ SetRelation(model, Relation(model))
                             /\ RelationAnswer(model, method, "recipes", user,
                                               id, 400)
                        ELSE IF ~unique_relation(model, user, id)
                          THEN /\ SetRelation(model, Relation(model))
                               /\ RelationAnswer(model, method, "recipes",
                                                 user, id, 500)
                          ELSE /\ SetRelation(model,
                                      Relation(model) \cup {<<user, id>>})
                               /\ RelationAnswer(model, method, "recipes",
                                                 user, id, 201)
                 ELSE IF relation = {}
                        THEN /\ SetRelation(model, Relation(model))
                             /\ RelationAnswer(model, method, "recipes", user,
                                               id, 400)
                        ELSE /\ SetRelation(model, Relation(model) \ relation)
                             /\ RelationAnswer(model, method, "recipes", user,
                                               id, 204)

ApiFavorite(user, id) == Api_add_relation("Favorite", user, id)

ApiDeleteFavorite(user, id) == Api_delete_relation("Favorite", user, id)

ApiShoppingCart(user, id) == Api_add_relation("ShoppingCart", user, id)

ApiDeleteShoppingCart(user, id) ==
    Api_delete_relation("ShoppingCart", user, id)

RecipesFavorite(method, user, id) ==
    Recipes_add_remove_relation("Favorite", method, user, id)

RecipesShoppingCart(method, user, id) ==
    Recipes_add_remove_relation("ShoppingCart", method, user, id)


(***************************************************************************)
(* Follow.                                                                 *)
(***************************************************************************)
FollowAnswer(op, impl, user, pk, status) ==
    response' = Answer(op, impl, user, pk, NoData, status, NoBody)

\* unique_follow and prevent_self_follow: an insert that breaks either
\* raises IntegrityError.
Follow_constraints(user, author) ==
    /\ <<user, author>> \notin follows
    /\ user # author

\* validate() without the user == author test.
FollowCreateSerializer_validate_NoSelfTest(user, author) ==
    <<user, author>> \notin follows

\* FollowCreateSerializer.validate: no self-follow, no second edge.
FollowCreateSerializer_validate(user, author) ==
    /\ ~(user = author)
    /\ <<user, author>> \notin follows

\* UserViewSet.subscribe (api/views.py).
ApiSubscribe(user, pk) ==
    /\ UNCHANGED <<recipeVars, favorites, shopping_cart>>
    /\ IF user = AnonymousUser
         THEN /\ follows' = follows
              /\ FollowAnswer("subscribe", "api", user, pk, 401)
         ELSE IF pk \notin users
           THEN /\ follows' = follows
                /\ FollowAnswer("subscribe", "api", user, pk, 404)
           ELSE IF ~FollowCreateSerializer_validate(user, pk)
             THEN /\ follows' = follows
                  /\ FollowAnswer("subscribe", "api", user, pk, 400)
             ELSE IF ~Follow_constraints(user, pk)
               THEN /\ follows' = follows
                    /\ FollowAnswer("subscribe", "api", user, pk, 500)
               ELSE /\ follows' = follows \cup {<<user, pk>>}
                    /\ FollowAnswer("subscribe", "api", user, pk, 201)

\* UserViewSet.unsubscribe (api/views.py):
\* Follow.objects.filter(user=request.user, author=author).delete().
ApiUnsubscribe(user, pk) ==
    LET deleted == {row \in follows : row[1] = user /\ row[2] = pk}
    IN  /\ UNCHANGED <<recipeVars, favorites, shopping_cart>>
        /\ IF user = AnonymousUser
             THEN /\ follows' = follows
                  /\ FollowAnswer("unsubscribe", "api", user, pk, 401)
             ELSE IF pk \notin users
               THEN /\ follows' = follows
                    /\ FollowAnswer("unsubscribe", "api", user, pk, 404)
               ELSE /\ follows' = follows \ deleted
                    /\ FollowAnswer("unsubscribe", "api", user, pk,
                           IF Cardinality(deleted) = 0 THEN 400 ELSE 204)

\* UserViewSet.subscribe (users/views.py), POST and DELETE.
UsersSubscribe(method, user, pk) ==
    LET op == IF method = "POST" THEN "subscribe" ELSE "unsubscribe"
    IN  /\ method \in {"POST", "DELETE"}
        /\ UNCHANGED <<recipeVars, favorites, shopping_cart>>
        /\ IF user = AnonymousUser
             THEN /\ follows' = follows
                  /\ FollowAnswer(op, "users", user, pk, 401)
             ELSE IF pk \notin users
               THEN /\ follows' = follows
                    /\ FollowAnswer(op, "users", user, pk, 404)
               ELSE IF method = "POST"
                 THEN IF user = pk \/ <<user, pk>> \in follows
                        THEN /\ follows' = follows
                             /\ FollowAnswer(op, "users", user, pk, 400)
                        ELSE IF ~Follow_constraints(user, pk)
                          THEN /\ follows' = follows
                               /\ FollowAnswer(op, "users", user, pk, 500)
                          ELSE /\ follows' = follows \cup {<<user, pk>>}
                               /\ FollowAnswer(op, "users", user, pk, 201)
                 ELSE IF <<user, pk>> \notin follows
                        THEN /\ follows' = follows
                             /\ FollowAnswer(op, "users", user, pk, 400)
                        ELSE /\ follows' = follows \ {<<user, pk>>}
                             /\ FollowAnswer(op, "users", user, pk, 204)

(***************************************************************************)
(* download_shopping_cart (the same code in api/views.py and               *)
(* recipes/views.py).                                                      *)
(***************************************************************************)
\* The rows of ShoppingCart.objects.filter(user=user) joined to
\* recipe__recipe_ingredients__ingredient: one <<cart row, ingredient row>>
\* per RecipeIngredient of a cart recipe.  The reverse relation is a LEFT
\* OUTER JOIN, so a cart recipe without rows yields <<cart row, NULL>>.
NULL == [recipe |-> 0, ingredient |-> 0, amount |-> 0]

\* The join without filter(user=request.user): the rows of every cart.
CartJoin_AllUsers(user) ==
    LET cart == shopping_cart
        matched == {p \in cart \X recipe_ingredients : p[2].recipe = p[1][2]}
        unmatched == {c \in cart :
                         ~\E x \in recipe_ingredients : x.recipe = c[2]}
    IN  matched \cup {<<c, NULL>> : c \in unmatched}

CartJoin(user) ==
    LET cart == {c \in shopping_cart : c[1] = user}
        matched == {p \in cart \X recipe_ingredients : p[2].recipe = p[1][2]}
        unmatched == {c \in cart :
                         ~\E x \in recipe_ingredients : x.recipe = c[2]}
    IN  matched \cup {<<c, NULL>> : c \in unmatched}

\* values(name, measurement_unit) of a joined row.
GroupKey(p) ==
    IF p[2] = NULL
      THEN [name |-> "None", measurement_unit |-> "None"]
      ELSE [name |-> Ingredient[p[2].ingredient].name,
            measurement_unit |-> Ingredient[p[2].ingredient].measurement_unit]

\* The annotation without the aggregate: the amount of one row of the
\* group.
Sum_OneRow(rows) ==
    IF rows = {} THEN 0 ELSE (CHOOSE q \in rows : TRUE)[2].amount

\* Sum('recipe__recipe_ingredients__amount') over the rows of one group.
RECURSIVE Sum(_)
Sum(rows) ==
    IF rows = {}
      THEN 0
      ELSE LET p == CHOOSE q \in rows : TRUE
           IN  p[2].amount + Sum(rows \ {p})

\* .values(name, unit).annotate(total_amount=Sum(amount)): one entry per
\* group; the group of NULL rows has total None, written -1 here.
Annotate(user) ==
    LET joined == CartJoin(user)
        keys == {GroupKey(p) : p \in joined}
    IN  {[name |-> k.name, measurement_unit |-> k.measurement_unit,
          amount |-> IF k.name = "None"
                       THEN -1
                       ELSE Sum({p \in joined : GroupKey(p) = k})] :
            k \in keys}

\* The lines after the heading, in whatever order the database returns
\* the groups: a bag of "name (unit) - amount" lines.
download_shopping_cart(impl, user) ==
    /\ UNCHANGED <<recipeVars, relationVars>>
    /\ IF user = AnonymousUser
         THEN response' = Answer("download_shopping_cart", impl, user, 0,
                                 NoData, 401, NoBody)
         ELSE response' = Answer("download_shopping_cart", impl, user, 0,
                                 NoData, 200, SetToBag(Annotate(user)))

ApiDownloadShoppingCart(user) == download_shopping_cart("api", user)

RecipesDownloadShoppingCart(user) == download_shopping_cart("recipes", user)


(***************************************************************************)
(* Request values.                                                         *)
(***************************************************************************)
Requesters == User \cup {AnonymousUser}

IngredientItems ==
    [id : DOMAIN Ingredient \cup MissingIngredientIds,
     amount : (MIN_AMOUNT - 1)..(MAX_AMOUNT + 1)]

IngredientLists == SeqsUpTo(IngredientItems, MaxIngredients)

TagLists == SeqsUpTo(Tag, MaxTags)

CookingTimes == (MIN_COOKING_TIME - 1)..(MAX_COOKING_TIME + 1)

\* Every body over the three fields, each present or left out.
RecipeData ==
    {[keys |-> {"ingredients", "tags", "cooking_time"} \ left_out,
      ingredients |-> IF "ingredients" \in left_out THEN <<>> ELSE l,
      tags |-> IF "tags" \in left_out THEN <<>> ELSE t,
      cooking_time |-> IF "cooking_time" \in left_out THEN 0 ELSE c] :
        left_out \in SUBSET {"ingredients", "tags", "cooking_time"},
        l \in IngredientLists, t \in TagLists, c \in CookingTimes}

FullBody(l, t, c) ==
    [keys |-> {"ingredients", "tags", "cooking_time"},
     ingredients |-> l, tags |-> t, cooking_time |-> c]

\* A few bodies for the runs that follow recipes through their life: two
\* valid ones that differ in every field and one without ingredients.
SampleData ==
    {FullBody(<<[id |-> 1, amount |-> MIN_AMOUNT]>>, <<1>>, MIN_COOKING_TIME),
     FullBody(<<[id |-> 1, amount |-> MAX_AMOUNT],
                [id |-> 2, amount |-> MIN_AMOUNT]>>, <<1, 2>>,
              MAX_COOKING_TIME),
     FullBody(<<>>, <<1>>, MIN_COOKING_TIME)}

NoResponse == Answer("none", "none", AnonymousUser, 0, NoData, 0, NoBody)

\* settings.py is not among the sources.  No handler opens a transaction
\* and the design relies on per-statement atomicity, so requests are not
\* wrapped in one either: Django's default.
ATOMIC_REQUESTS == FALSE

\* The names of the Ingredient rows, letter by letter.
Spelling == [salt |-> <<"s", "a", "l", "t">>]

Spelled == [i \in DOMAIN Ingredient |-> Spelling[Ingredient[i].name]]

\* check_password that accepts every password.
check_password_Any(raw, stored) == TRUE

\* AbstractUser.set_password stores make_password(raw): the hash, never
\* the password.
make_password(raw) == <<"hash", raw>>

\* AbstractUser.check_password
check_password(raw, stored) == make_password(raw) = stored

\* The User rows' columns before any request.
FirstAccounts ==
    [u \in {"alice", "bob", "carol"} |->
        [first_name |-> u, avatar |-> "", password |-> make_password("p1")]]

\* The clients whose requests are followed statement by statement.
Clients == {"c1", "c2"}

Idle == [pc |-> "idle"]

NoPending == [c \in Clients |-> Idle]

NoRows == [model \in {"Favorite", "ShoppingCart", "Follow"} |-> EmptyBag]

\* No request in flight, every user row present: the start of a
\* specification whose handlers run as one step each.
Quiet ==
    /\ users = User
    /\ pending = NoPending
    /\ row_bags = NoRows
    /\ ingredient_names = Spelled
    /\ accounts = FirstAccounts

(***************************************************************************)
(* Spec: recipes through their life (create, update, destroy) in both      *)
(* packages, from an empty database.                                       *)
(***************************************************************************)
Init ==
    /\ recipes = <<>>
    /\ next_id = 1
    /\ recipe_tags = {}
    /\ recipe_ingredients = {}
    /\ favorites = {}
    /\ shopping_cart = {}
    /\ follows = {}
    /\ response = NoResponse
    /\ Quiet

Next ==
    \/ /\ \E user \in User, data \in SampleData :
             ApiRecipeCreate(user, data)
       /\ UNCHANGED stepVars
    \/ /\ \E user \in User, data \in SampleData :
             RecipesRecipeCreate(user, data)
       /\ UNCHANGED stepVars
    \/ /\ \E method \in {"PUT", "PATCH"}, user \in User,
             id \in 1..MaxRecipes, data \in SampleData :
             ApiRecipeUpdate(method, user, id, data)
       /\ UNCHANGED stepVars
    \/ /\ \E method \in {"PUT", "PATCH"}, user \in User,
             id \in 1..MaxRecipes, data \in SampleData :
             RecipesRecipeUpdate(method, user, id, data)
       /\ UNCHANGED stepVars
    \/ /\ \E user \in User, id \in 1..MaxRecipes :
             ApiRecipeDestroy(user, id)
       /\ UNCHANGED stepVars
    \/ /\ \E user \in User, id \in 1..MaxRecipes :
             RecipesRecipeDestroy(user, id)
       /\ UNCHANGED stepVars

Spec == Init /\ [][Next]_vars


(***************************************************************************)
(* SpecValidate: one write request, with any body of RecipeData, against   *)
(* a database that holds one recipe of alice's (the database Spec reaches  *)
(* when alice creates the first sample body).                              *)
(***************************************************************************)
InitValidate ==
    /\ recipes = (1 :> [author |-> "alice",
                        cooking_time |-> MIN_COOKING_TIME,
                        short_code |-> 1])
    /\ next_id = 2
    /\ recipe_tags = {<<1, 1>>}
    /\ recipe_ingredients =
          {[recipe |-> 1, ingredient |-> 1, amount |-> MIN_AMOUNT]}
    /\ favorites = {}
    /\ shopping_cart = {}
    /\ follows = {}
    /\ response = NoResponse
    /\ Quiet

NextValidate ==
    \/ /\ response = NoResponse
       /\ \E user \in User, data \in RecipeData :
             ApiRecipeCreate(user, data)
       /\ UNCHANGED stepVars
    \/ /\ response = NoResponse
       /\ \E user \in User, data \in RecipeData :
             RecipesRecipeCreate(user, data)
       /\ UNCHANGED stepVars
    \/ /\ response = NoResponse
       /\ \E method \in {"PUT", "PATCH"}, user \in User,
             data \in RecipeData :
             ApiRecipeUpdate(method, user, 1, data)
       /\ UNCHANGED stepVars
    \/ /\ response = NoResponse
       /\ \E method \in {"PUT", "PATCH"}, user \in User,
             data \in RecipeData :
             RecipesRecipeUpdate(method, user, 1, data)
       /\ UNCHANGED stepVars

SpecValidate == InitValidate /\ [][NextValidate]_vars


(***************************************************************************)
(* The specifications of the relation handlers start from a database with  *)
(* two recipes, one of each user, as two creates leave it.                 *)
(***************************************************************************)
TwoRecipes ==
    (1 :> [author |-> "alice", cooking_time |-> MIN_COOKING_TIME,
           short_code |-> 1]) @@
    (2 :> [author |-> "bob", cooking_time |-> MAX_COOKING_TIME,
           short_code |-> 2])

\* The ingredients lists a create accepts.
ValidIngredientLists ==
    {l \in IngredientLists :
        Api_is_valid(FullBody(l, <<1>>, MIN_COOKING_TIME), FALSE)}

RowsOf(recipe, l) == {RowOf(recipe, l[i]) : i \in DOMAIN l}

\* A recipe id with no row.
RecipeTargets == DOMAIN recipes \cup {next_id}

\* "nobody" is a user id with no row.
UserTargets == User \cup {"nobody"}

(***************************************************************************)
(* SpecRelations: favorite and shopping_cart requests of both packages.    *)
(***************************************************************************)
InitRelations ==
    /\ recipes = TwoRecipes
    /\ next_id = 3
    /\ recipe_tags = {<<1, 1>>, <<2, 1>>, <<2, 2>>}
    /\ recipe_ingredients =
          RowsOf(1, <<[id |-> 1, amount |-> MIN_AMOUNT]>>) \cup
          RowsOf(2, <<[id |-> 1, amount |-> MAX_AMOUNT],
                      [id |-> 2, amount |-> MIN_AMOUNT]>>)
    /\ favorites = {}
    /\ shopping_cart = {}
    /\ follows = {}
    /\ response = NoResponse
    /\ Quiet

NextRelations ==
    \/ /\ \E user \in Requesters, id \in RecipeTargets : ApiFavorite(user, id)
       /\ UNCHANGED stepVars
    \/ /\ \E user \in Requesters, id \in RecipeTargets :
             ApiDeleteFavorite(user, id)
       /\ UNCHANGED stepVars
    \/ /\ \E user \in Requesters, id \in RecipeTargets :
             ApiShoppingCart(user, id)
       /\ UNCHANGED stepVars
    \/ /\ \E user \in Requesters, id \in RecipeTargets :
             ApiDeleteShoppingCart(user, id)
       /\ UNCHANGED stepVars
    \/ /\ \E method \in {"POST", "DELETE"}, user \in Requesters,
             id \in RecipeTargets : RecipesFavorite(method, user, id)
       /\ UNCHANGED stepVars
    \/ /\ \E method \in {"POST", "DELETE"}, user \in Requesters,
             id \in RecipeTargets : RecipesShoppingCart(method, user, id)
       /\ UNCHANGED stepVars

SpecRelations == InitRelations /\ [][NextRelations]_vars

(***************************************************************************)
(* SpecFollow: subscribe and unsubscribe requests of both packages.        *)
(***************************************************************************)
NextFollow ==
    \/ /\ \E user \in Requesters, pk \in UserTargets : ApiSubscribe(user, pk)
       /\ UNCHANGED stepVars
    \/ /\ \E user \in Requesters, pk \in UserTargets : ApiUnsubscribe(user, pk)
       /\ UNCHANGED stepVars
    \/ /\ \E method \in {"POST", "DELETE"}, user \in Requesters,
             pk \in UserTargets : UsersSubscribe(method, user, pk)
       /\ UNCHANGED stepVars

SpecFollow == InitRelations /\ [][NextFollow]_vars

(***************************************************************************)
(* SpecCart: shopping_cart requests and the download of the list, over     *)
(* every pair of ingredient lists the two recipes can have been created    *)
(* with.                                                                   *)
(***************************************************************************)
InitCart ==
    /\ recipes = TwoRecipes
    /\ next_id = 3
    /\ recipe_tags = {<<1, 1>>, <<2, 1>>, <<2, 2>>}
    /\ \E l1 \in ValidIngredientLists, l2 \in ValidIngredientLists :
          recipe_ingredients = RowsOf(1, l1) \cup RowsOf(2, l2)
    /\ favorites = {}
    /\ shopping_cart = {}
    /\ follows = {}
    /\ response = NoResponse
    /\ Quiet

NextCart ==
    \/ /\ \E user \in Requesters, id \in RecipeTargets :
             ApiShoppingCart(user, id)
       /\ UNCHANGED stepVars
    \/ /\ \E user \in Requesters, id \in RecipeTargets :
             ApiDeleteShoppingCart(user, id)
       /\ UNCHANGED stepVars
    \/ /\ \E method \in {"POST", "DELETE"}, user \in Requesters,
             id \in RecipeTargets : RecipesShoppingCart(method, user, id)
       /\ UNCHANGED stepVars
    \/ /\ \E user \in Requesters : ApiDownloadShoppingCart(user)
       /\ UNCHANGED stepVars
    \/ /\ \E user \in Requesters : RecipesDownloadShoppingCart(user)
       /\ UNCHANGED stepVars

SpecCart == InitCart /\ [][NextCart]_vars


(***************************************************************************)
(* The recipe writes statement by statement.  No handler opens a           *)
(* transaction, so every ORM statement commits on its own and the rows it  *)
(* wrote are visible to other requests before the handler has finished.    *)
(* A client holds one request in flight; pending[c].pc names the statement *)
(* it runs next:                                                           *)
(*   "insert"  the INSERT of Recipe.objects.create / super().create        *)
(*   "save"    the UPDATE of instance.save() / super().update              *)
(*   "tags"    tags.set(tags_data)                                         *)
(*   "delete"  recipe_ingredients.all().delete()                           *)
(*   "rows"    bulk_create (api) or the next objects.create (recipes)      *)
(* Permission checks, validation and the existence check of Recipe.save    *)
(* run when the request starts.  tags.set, delete() and bulk_create are    *)
(* each one atomic statement.                                              *)
(***************************************************************************)
Goto(c, request) == pending' = [pending EXCEPT ![c] = request]

\* The response of a request that wrote; the client issues no second one.
Done == [pc |-> "done"]

Finish(c, status) ==
    LET r == pending[c]
    IN  /\ pending' = [pending EXCEPT ![c] = Done]
        /\ response' = Answer(r.op, r.impl, r.user, r.id, r.data, status,
                              NoBody)

\* A request that is answered before its first write.
Turned(op, impl, user, id, data, status) ==
    /\ UNCHANGED <<recipeVars, pending>>
    /\ response' = Answer(op, impl, user, id, data, status, NoBody)

\* Creates that have passed validation and not yet inserted their row.
Inserting == {c \in Clients : pending[c].pc = "insert"}

is_valid(impl, data, method) ==
    IF impl = "api"
      THEN Api_is_valid(data, method = "PATCH")
      ELSE Recipes_is_valid(data, method)

\* POST /recipes/ up to the existence check of Recipe.save.
StartRecipeCreate(c, impl, user, data) ==
    /\ pending[c] = Idle
    /\ next_id + Cardinality(Inserting) <= MaxRecipes
    /\ UNCHANGED <<relationVars, users, row_bags, ingredient_names,
                   accounts>>
    /\ IF user = AnonymousUser
         THEN Turned("create", impl, user, 0, data, 401)
         ELSE IF ~is_valid(impl, data, "POST")
           THEN Turned("create", impl, user, 0, data, 400)
           ELSE /\ \E short_code \in save(0) :
                      Goto(c, [pc |-> "insert", op |-> "create",
                               impl |-> impl, user |-> user, id |-> 0,
                               data |-> data, short_code |-> short_code,
                               todo |-> data.ingredients])
                /\ UNCHANGED <<recipeVars, response>>

\* PUT / PATCH /recipes/{id}/ up to the serializer's update(): get_object,
\* the author check, is_valid.  The instance read here is the one save()
\* writes back.
StartRecipeUpdate(c, impl, method, user, id, data) ==
    /\ pending[c] = Idle
    /\ method \in {"PUT", "PATCH"}
    /\ UNCHANGED <<relationVars, users, row_bags, ingredient_names,
                   accounts>>
    /\ IF user = AnonymousUser
         THEN Turned(OpOf(method), impl, user, id, data, 401)
         ELSE IF id \notin DOMAIN recipes
           THEN Turned(OpOf(method), impl, user, id, data, 404)
           ELSE IF recipes[id].author # user
             THEN Turned(OpOf(method), impl, user, id, data, 403)
             ELSE IF ~is_valid(impl, data, method)
               THEN Turned(OpOf(method), impl, user, id, data, 400)
               ELSE /\ \E short_code \in save(recipes[id].short_code) :
                          Goto(c, [pc |-> "save", op |-> OpOf(method),
                                   impl |-> impl, user |-> user, id |-> id,
                                   data |-> data, short_code |-> short_code,
                                   todo |-> data.ingredients])
                    /\ UNCHANGED <<recipeVars, response>>

\* The INSERT of the Recipe row.
StepInsert(c) ==
    LET r == pending[c]
        id == next_id
    IN  /\ r.pc = "insert"
        /\ UNCHANGED <<relationVars, users, row_bags, ingredient_names,
                   accounts>>
        /\ IF ~unique_short_code(id, r.short_code)
             THEN /\ UNCHANGED recipeVars
                  /\ Finish(c, 500)
             ELSE /\ recipes' = recipes @@
                        (id :> [author |-> r.user,
                                cooking_time |-> r.data.cooking_time,
                                short_code |-> r.short_code])
                  /\ next_id' = next_id + 1
                  /\ UNCHANGED <<recipe_tags, recipe_ingredients, response>>
                  /\ Goto(c, [r EXCEPT !.pc = "tags", !.id = id])

\* The UPDATE of the Recipe row.
StepSave(c) ==
    LET r == pending[c]
    IN  /\ r.pc = "save"
        /\ r.id \in DOMAIN recipes
        /\ UNCHANGED <<relationVars, users, row_bags, ingredient_names,
                   accounts>>
        /\ IF ~unique_short_code(r.id, r.short_code)
             THEN /\ UNCHANGED recipeVars
                  /\ Finish(c, 500)
             ELSE /\ recipes' = [recipes EXCEPT ![r.id] =
                        [author |-> @.author,
                         cooking_time |-> IF "cooking_time" \in r.data.keys
                                            THEN r.data.cooking_time
                                            ELSE @.cooking_time,
                         short_code |-> r.short_code]]
                  /\ UNCHANGED <<next_id, recipe_tags, recipe_ingredients,
                                 response>>
                  /\ Goto(c, [r EXCEPT !.pc = "tags"])

\* tags.set(tags_data); the update of recipes/serializers.py skips it for
\* a body without tags.
StepTags(c) ==
    LET r == pending[c]
    IN  /\ r.pc = "tags"
        /\ UNCHANGED <<relationVars, users, row_bags, ingredient_names,
                   accounts>>
        /\ recipe_tags' =
              IF r.impl = "recipes" /\ "tags" \notin r.data.keys
                THEN recipe_tags
                ELSE {l \in recipe_tags : l[1] # r.id} \cup
                         {<<r.id, t>> : t \in Range(r.data.tags)}
        /\ UNCHANGED <<recipes, next_id, recipe_ingredients, response>>
        /\ Goto(c, [r EXCEPT !.pc = IF r.op = "create"
                                      THEN "rows" ELSE "delete"])

\* instance.recipe_ingredients.all().delete(); the update of
\* recipes/serializers.py returns here for a body without ingredients.
StepDelete(c) ==
    LET r == pending[c]
    IN  /\ r.pc = "delete"
        /\ UNCHANGED <<relationVars, users, row_bags, ingredient_names,
                   accounts>>
        /\ UNCHANGED <<recipes, next_id, recipe_tags>>
        /\ IF r.impl = "recipes" /\ "ingredients" \notin r.data.keys
             THEN /\ UNCHANGED recipe_ingredients
                  /\ Finish(c, 200)
             ELSE /\ recipe_ingredients' =
                        {x \in recipe_ingredients : x.recipe # r.id}
                  /\ UNCHANGED response
                  /\ Goto(c, [r EXCEPT !.pc = "rows"])

\* _create_recipe_ingredients of the api package: one bulk_create.
StepBulkCreate(c) ==
    LET r == pending[c]
        written == Api_create_recipe_ingredients(
                       recipe_ingredients, r.id, r.todo)
    IN  /\ r.pc = "rows"
        /\ r.impl = "api"
        /\ UNCHANGED <<relationVars, users, row_bags, ingredient_names,
                   accounts>>
        /\ recipe_ingredients' = written.table
        /\ UNCHANGED <<recipes, next_id, recipe_tags>>
        /\ Finish(c, IF ~written.ok THEN 500
                     ELSE IF r.op = "create" THEN 201 ELSE 200)

\* The loop of recipes/serializers.py: one RecipeIngredient.objects.create
\* per step, the response after the last.
StepCreateRow(c) ==
    LET r == pending[c]
        row == RowOf(r.id, Head(r.todo))
    IN  /\ r.pc = "rows"
        /\ r.impl = "recipes"
        /\ r.todo # <<>>
        /\ UNCHANGED <<relationVars, users, row_bags, ingredient_names,
                   accounts>>
        /\ UNCHANGED <<recipes, next_id, recipe_tags>>
        /\ IF ~Insertable(recipe_ingredients, row)
             THEN /\ UNCHANGED recipe_ingredients
                  /\ Finish(c, 500)
             ELSE /\ recipe_ingredients' = recipe_ingredients \cup {row}
                  /\ IF Tail(r.todo) = <<>>
                       THEN Finish(c, IF r.op = "create" THEN 201 ELSE 200)
                       ELSE /\ Goto(c, [r EXCEPT !.todo = Tail(r.todo)])
                            /\ UNCHANGED response

(***************************************************************************)
(* GET /recipes/{id}/ (AllowAny in both packages): RecipeReadSerializer    *)
(* over the row, its prefetched tags and recipe_ingredients.               *)
(***************************************************************************)
RecipeReadSerializer(id) ==
    [tags |-> {l[2] : l \in {x \in recipe_tags : x[1] = id}},
     ingredients |-> {[id |-> x.ingredient, amount |-> x.amount] :
                         x \in {y \in recipe_ingredients : y.recipe = id}}]

\* Under a request-wide transaction a read would see no row of a request
\* still in flight.
RecipeRetrieve(impl, user, id) ==
    /\ ATOMIC_REQUESTS =>
          \A c \in Clients : pending[c].pc \in {"idle", "done"}
    /\ UNCHANGED <<recipeVars, relationVars, stepVars>>
    /\ response' = IF id \in DOMAIN recipes
                     THEN Answer("retrieve", impl, user, id, NoData, 200,
                                 RecipeReadSerializer(id))
                     ELSE Answer("retrieve", impl, user, id, NoData, 404,
                                 NoBody)

(***************************************************************************)
(* SpecSteps: two clients, each with one recipe create or update that      *)
(* runs statement by statement against the database of SpecValidate, and   *)
(* reads of the recipes in between.  The updates are PATCH requests; a PUT *)
(* runs the same statements.                                               *)
(***************************************************************************)
\* The sample bodies a create accepts.
WritableData == {d \in SampleData : Api_is_valid(d, FALSE)}

NextSteps ==
    \/ \E c \in Clients, impl \in {"api", "recipes"}, user \in User,
          data \in WritableData : StartRecipeCreate(c, impl, user, data)
    \/ \E c \in Clients, impl \in {"api", "recipes"},
          method \in {"PATCH"}, user \in User,
          id \in 1..MaxRecipes, data \in WritableData :
          StartRecipeUpdate(c, impl, method, user, id, data)
    \/ \E c \in Clients : StepInsert(c)
    \/ \E c \in Clients : StepSave(c)
    \/ \E c \in Clients : StepTags(c)
    \/ \E c \in Clients : StepDelete(c)
    \/ \E c \in Clients : StepBulkCreate(c)
    \/ \E c \in Clients : StepCreateRow(c)
    \/ \E impl \in {"api", "recipes"}, id \in 1..MaxRecipes :
          RecipeRetrieve(impl, AnonymousUser, id)

SpecSteps == InitValidate /\ [][NextSteps]_vars


(***************************************************************************)
(* SpecCollide: two clients, each with one recipe create that runs         *)
(* statement by statement against an empty Recipe table, so that both can  *)
(* draw their token before either has inserted.                            *)
(***************************************************************************)
NextCollide ==
    \/ \E c \in Clients, impl \in {"api", "recipes"}, user \in User,
          data \in WritableData : StartRecipeCreate(c, impl, user, data)
    \/ \E c \in Clients : StepInsert(c)
    \/ \E c \in Clients : StepTags(c)
    \/ \E c \in Clients : StepBulkCreate(c)
    \/ \E c \in Clients : StepCreateRow(c)

SpecCollide == Init /\ [][NextCollide]_vars


(***************************************************************************)
(* The loop of Recipe.save one iteration at a time.  pending[c].pc is      *)
(*   "draw"      code = secrets.token_urlsafe(4)[:6]                       *)
(*   "exists"    if not Recipe.objects.filter(short_code=code).exists()    *)
(*   "assigned"  self.short_code = code; break                             *)
(* SpecDraw runs the loop of two saves against every Recipe table of up to *)
(* as many rows as there are tokens, the full one included.  The draw is   *)
(* fair: a token that can be drawn again and again is drawn in the end.    *)
(***************************************************************************)
Draw(c, code) ==
    /\ pending[c].pc = "draw"
    /\ Goto(c, [pc |-> "exists", code |-> code])
    /\ UNCHANGED <<recipeVars, relationVars, response, users, row_bags,
                   ingredient_names, accounts>>

Exists(c) ==
    /\ pending[c].pc = "exists"
    /\ IF ShortCodeExists(pending[c].code)
         THEN Goto(c, [pc |-> "draw"])
         ELSE Goto(c, [pc |-> "assigned", short_code |-> pending[c].code])
    /\ UNCHANGED <<recipeVars, relationVars, response, users, row_bags,
                   ingredient_names, accounts>>

\* The tables of k recipes with k different codes.
CodeTables ==
    UNION {{t \in [1..k -> Codes] :
               \A i \in 1..k, j \in 1..k : t[i] = t[j] => i = j} :
           k \in 0..Cardinality(Codes)}

InitDraw ==
    /\ \E t \in CodeTables :
          /\ recipes = [r \in DOMAIN t |->
                           [author |-> "alice",
                            cooking_time |-> MIN_COOKING_TIME,
                            short_code |-> t[r]]]
          /\ next_id = Len(t) + 1
    /\ recipe_tags = {}
    /\ recipe_ingredients = {}
    /\ favorites = {}
    /\ shopping_cart = {}
    /\ follows = {}
    /\ response = NoResponse
    /\ users = User
    /\ pending = [c \in Clients |-> [pc |-> "draw"]]
    /\ row_bags = NoRows
    /\ ingredient_names = Spelled
    /\ accounts = FirstAccounts

NextDraw ==
    \/ \E c \in Clients, code \in Codes : Draw(c, code)
    \/ \E c \in Clients : Exists(c)

SpecDraw ==
    /\ InitDraw
    /\ [][NextDraw]_vars
    /\ \A c \in Clients :
          /\ WF_vars(Exists(c))
          /\ \A code \in Codes : SF_vars(Draw(c, code))


(***************************************************************************)
(* SpecAuth: one write request on recipes by the author, by another user   *)
(* or by an unauthenticated client, against a database that holds one      *)
(* recipe of alice's which bob has in his favorites and his cart.          *)
(***************************************************************************)
InitAuth ==
    /\ recipes = (1 :> [author |-> "alice",
                        cooking_time |-> MIN_COOKING_TIME,
                        short_code |-> 1])
    /\ next_id = 2
    /\ recipe_tags = {<<1, 1>>}
    /\ \E l \in ValidIngredientLists : recipe_ingredients = RowsOf(1, l)
    /\ favorites = {<<"bob", 1>>}
    /\ shopping_cart = {<<"bob", 1>>}
    /\ follows = {}
    /\ response = NoResponse
    /\ Quiet

NextAuth ==
    \/ /\ response = NoResponse
       /\ \E user \in Requesters, data \in SampleData :
             ApiRecipeCreate(user, data)
       /\ UNCHANGED stepVars
    \/ /\ response = NoResponse
       /\ \E user \in Requesters, data \in SampleData :
             RecipesRecipeCreate(user, data)
       /\ UNCHANGED stepVars
    \/ /\ response = NoResponse
       /\ \E method \in {"PUT", "PATCH"}, user \in Requesters,
             id \in RecipeTargets, data \in SampleData :
             ApiRecipeUpdate(method, user, id, data)
       /\ UNCHANGED stepVars
    \/ /\ response = NoResponse
       /\ \E method \in {"PUT", "PATCH"}, user \in Requesters,
             id \in RecipeTargets, data \in SampleData :
             RecipesRecipeUpdate(method, user, id, data)
       /\ UNCHANGED stepVars
    \/ /\ response = NoResponse
       /\ \E user \in Requesters, id \in RecipeTargets :
             ApiRecipeDestroy(user, id)
       /\ UNCHANGED stepVars
    \/ /\ response = NoResponse
       /\ \E user \in Requesters, id \in RecipeTargets :
             RecipesRecipeDestroy(user, id)
       /\ UNCHANGED stepVars

SpecAuth == InitAuth /\ [][NextAuth]_vars


(***************************************************************************)
(* DELETE /users/{id}/ of the api package: UserViewSet is a ModelViewSet,  *)
(* destroy is behind IsAuthenticated and its queryset is every user.  The  *)
(* collector follows on_delete=CASCADE from the user to the recipes they   *)
(* wrote (and from those to their rows), to their Favorite and             *)
(* ShoppingCart rows and to the Follow rows at either end.                 *)
(***************************************************************************)
ApiUserDestroy(user, pk) ==
    LET gone == {r \in DOMAIN recipes : recipes[r].author = pk}
    IN  /\ UNCHANGED <<pending, row_bags, ingredient_names, accounts>>
        /\ IF user = AnonymousUser \/ pk \notin users
             THEN /\ UNCHANGED <<recipeVars, relationVars, users>>
                  /\ response' = Answer("destroy_user", "api", user, pk,
                                        NoData,
                                        IF user = AnonymousUser
                                          THEN 401 ELSE 404,
                                        NoBody)
             ELSE /\ users' = users \ {pk}
                  /\ recipes' = [r \in DOMAIN recipes \ gone |-> recipes[r]]
                  /\ next_id' = next_id
                  /\ recipe_tags' = {l \in recipe_tags : l[1] \notin gone}
                  /\ recipe_ingredients' =
                        {x \in recipe_ingredients : x.recipe \notin gone}
                  /\ favorites' = {f \in favorites :
                                      f[1] # pk /\ f[2] \notin gone}
                  /\ shopping_cart' = {c \in shopping_cart :
                                          c[1] # pk /\ c[2] \notin gone}
                  /\ follows' = {e \in follows : e[1] # pk /\ e[2] # pk}
                  /\ response' = Answer("destroy_user", "api", user, pk,
                                        NoData, 204, NoBody)

(***************************************************************************)
(* SpecCascade: favorites, carts and subscriptions being filled while      *)
(* recipes and users are deleted.  A deleted user has no token left, so    *)
(* requests come from the users that remain or without credentials.        *)
(***************************************************************************)
Remaining == users \cup {AnonymousUser}

NextCascade ==
    \/ /\ \E user \in Remaining, id \in RecipeTargets : ApiFavorite(user, id)
       /\ UNCHANGED stepVars
    \/ /\ \E user \in Remaining, id \in RecipeTargets :
             ApiShoppingCart(user, id)
       /\ UNCHANGED stepVars
    \/ /\ \E user \in Remaining, pk \in UserTargets : ApiSubscribe(user, pk)
       /\ UNCHANGED stepVars
    \/ /\ \E user \in Remaining, id \in RecipeTargets :
             ApiRecipeDestroy(user, id)
       /\ UNCHANGED stepVars
    \/ /\ \E user \in Remaining, id \in RecipeTargets :
             RecipesRecipeDestroy(user, id)
       /\ UNCHANGED stepVars
    \/ \E user \in Remaining, pk \in UserTargets : ApiUserDestroy(user, pk)

SpecCascade == InitRelations /\ [][NextCascade]_vars


(***************************************************************************)
(* Query parameters.  A parameter is absent, an integer, or text that is   *)
(* not a number.                                                           *)
(***************************************************************************)
Absent == [kind |-> "absent", value |-> 0]

Text == [kind |-> "text", value |-> 0]

Number(n) == [kind |-> "int", value |-> n]

(***************************************************************************)
(* api/pagination.py: FoodgramPagination(PageNumberPagination).            *)
(* foodgram/constants.py is not among the sources: PAGE_SIZE is scaled     *)
(* down to 1 so that a list of two rows spans two pages.  The class sets   *)
(* no max_page_size, which leaves the base class's None (written 0).       *)
(***************************************************************************)
PAGE_SIZE == 1

max_page_size == 0

\* rest_framework.pagination._positive_int(value, strict=True, cutoff):
\* the results are "ValueError" (written 0) or the integer, cut off at
\* cutoff when there is one.
positive_int(param, cutoff) ==
    IF param.kind # "int" \/ param.value <= 0
      THEN 0
      ELSE IF cutoff # 0 /\ cutoff < param.value
        THEN cutoff
        ELSE param.value

\* PageNumberPagination.get_page_size: the limit parameter when it is a
\* positive integer, page_size otherwise.
get_page_size(limit) ==
    IF limit.kind = "absent" \/ positive_int(limit, max_page_size) = 0
      THEN PAGE_SIZE
      ELSE positive_int(limit, max_page_size)

\* Paginator.num_pages, with allow_empty_first_page.
num_pages(count, size) ==
    IF count = 0 THEN 1 ELSE (count + size - 1) \div size

\* paginate_queryset and get_paginated_response: 404 for a page that does
\* not exist, else the count of the whole queryset and the page's slice.
paginate_queryset(queryset, limit, page) ==
    LET size == get_page_size(limit)
        count == Len(queryset)
        first == (page - 1) * size + 1
        last == IF page * size < count THEN page * size ELSE count
    IN  IF page < 1 \/ page > num_pages(count, size)
          THEN [status |-> 404, body |-> NoBody]
          ELSE [status |-> 200,
                body |-> [count |-> count,
                          results |-> SubSeq(queryset, first, last)]]

(***************************************************************************)
(* Querysets are sequences of primary keys in the model's ordering.        *)
(***************************************************************************)
RECURSIVE Descending(_)
Descending(S) ==
    IF S = {}
      THEN <<>>
      ELSE LET top == CHOOSE x \in S : \A y \in S : y <= x
           IN  <<top>> \o Descending(S \ {top})

\* Recipe.objects.all(): Meta.ordering is -pub_date, and a later insert
\* has the larger id.
Recipe_objects == Descending(DOMAIN recipes)

\* queryset.distinct()
RECURSIVE distinct(_)
distinct(queryset) ==
    IF queryset = <<>>
      THEN <<>>
      ELSE LET rest == distinct(Tail(queryset))
           IN  IF Head(queryset) \in Range(Tail(queryset))
                 THEN rest
                 ELSE <<Head(queryset)>> \o rest

(***************************************************************************)
(* recipes/filters.py: RecipeFilter.                                       *)
(***************************************************************************)
\* Tag.slug of the two tags, and a slug no tag has.
Slug == (1 :> "breakfast") @@ (2 :> "dinner")

MissingSlugs == {"brunch"}

\* queryset.filter(tags__slug__in=tags_slugs): the join yields a recipe
\* once for every one of its tags whose slug is in the list.
RECURSIVE filter_tags_join(_, _)
filter_tags_join(queryset, tags_slugs) ==
    IF queryset = <<>>
      THEN <<>>
      ELSE LET id == Head(queryset)
               hits == {l \in recipe_tags :
                           l[1] = id /\ Slug[l[2]] \in tags_slugs}
           IN  [i \in 1..Cardinality(hits) |-> id] \o
                   filter_tags_join(Tail(queryset), tags_slugs)

\* filter_tags without the .distinct().
filter_tags_NoDistinct(queryset, value) ==
    IF value = {}
      THEN queryset
      ELSE filter_tags_join(queryset, value)

filter_tags(queryset, value) ==
    IF value = {}
      THEN queryset
      ELSE distinct(filter_tags_join(queryset, value))

\* filter_is_favorited / filter_is_in_shopping_cart: value is the raw
\* string of a CharFilter, "" when the parameter is absent.
filter_membership(queryset, table, user, value) ==
    IF value # "" /\ user # AnonymousUser
      THEN SelectSeq(queryset, LAMBDA id : <<user, id>> \in table)
      ELSE queryset

\* The author field of Meta.fields: an exact match on the foreign key.
filter_author(queryset, author) ==
    IF author = ""
      THEN queryset
      ELSE SelectSeq(queryset, LAMBDA id : recipes[id].author = author)

\* The filterset's form: author must name a user, every tag a slug of
\* Tag.objects.all().
RecipeFilter_is_valid(q) ==
    /\ q.author = "" \/ q.author \in users
    /\ q.tags \subseteq Range(Slug)

\* filterset.qs: every filter applied in turn.
RecipeFilter(queryset, user, q) ==
    filter_membership(
        filter_membership(
            filter_tags(filter_author(queryset, q.author), q.tags),
            favorites, user, q.is_favorited),
        shopping_cart, user, q.is_in_shopping_cart)

\* A request with no filter parameter and the default page.
NoQuery ==
    [author |-> "", tags |-> {}, is_favorited |-> "",
     is_in_shopping_cart |-> "", limit |-> Absent, page |-> 1,
     recipes_limit |-> Absent]

ReadAnswer(op, impl, user, q, page) ==
    /\ UNCHANGED <<recipeVars, relationVars, stepVars>>
    /\ response' = Answer(op, impl, user, 0, q, page.status, page.body)

\* GET /recipes/ (AllowAny): filter_queryset, paginate_queryset.
RecipeList(impl, user, q) ==
    IF ~RecipeFilter_is_valid(q)
      THEN ReadAnswer("list", impl, user, q, [status |-> 400, body |-> NoBody])
      ELSE ReadAnswer("list", impl, user, q,
                      paginate_queryset(RecipeFilter(Recipe_objects, user, q),
                                        q.limit, q.page))

(***************************************************************************)
(* GET /users/ and GET /users/subscriptions/.                              *)
(***************************************************************************)
\* A third account, for the lists of users: someone alice can follow
\* besides bob.
Carol == "carol"

\* User.objects.all(): Meta.ordering is (email, username).
User_objects ==
    SelectSeq(<<"alice", "bob", "carol">>, LAMBDA u : u \in users)

\* GET /users/ (AllowAny).
UserList(impl, user, q) ==
    ReadAnswer("list_users", impl, user, q,
               paginate_queryset(User_objects, q.limit, q.page))

\* An exception out of a serializer method; 0 is no recipe's id.
Raised == <<0>>

\* obj.recipes.all() of an author, in Recipe's ordering.
RecipesBy(author) ==
    SelectSeq(Recipe_objects, LAMBDA id : recipes[id].author = author)

\* queryset[:n] for n >= 0.
Slice(queryset, n) ==
    SubSeq(queryset, 1, IF n < Len(queryset) THEN n ELSE Len(queryset))

\* SubscriptionSerializer.get_recipes (api/serializers.py):
\* int(query_params.get('recipes_limit')) inside try / except (TypeError,
\* ValueError).  An absent or non-numeric parameter leaves the list whole.
\* A negative one makes the slice raise: ValueError on the Django releases
\* that raise it (caught here, list left whole), AssertionError on the
\* older ones (not caught).  The Django release is not
\* pinned by any source file, so both outcomes are returned.
Api_get_recipes(author, recipes_limit) ==
    IF recipes_limit.kind # "int"
      THEN {RecipesBy(author)}
      ELSE IF recipes_limit.value < 0
        THEN {RecipesBy(author), Raised}
        ELSE {Slice(RecipesBy(author), recipes_limit.value)}

\* FollowSerializer.get_recipes (users/serializers.py):
\* int(query_params.get('recipes_limit', 3)), no try.
Users_get_recipes(author, recipes_limit) ==
    IF recipes_limit.kind = "absent"
      THEN {Slice(RecipesBy(author), 3)}
      ELSE IF recipes_limit.kind = "text" \/ recipes_limit.value < 0
        THEN {Raised}
        ELSE {Slice(RecipesBy(author), recipes_limit.value)}

\* get_recipes that ignores recipes_limit.
get_recipes_Whole(impl, author, recipes_limit) == {RecipesBy(author)}

get_recipes(impl, author, recipes_limit) ==
    IF impl = "api"
      THEN Api_get_recipes(author, recipes_limit)
      ELSE Users_get_recipes(author, recipes_limit)

\* get_recipes_count: obj.recipes.count()
get_recipes_count(author) == Len(RecipesBy(author))

\* The orders a queryset without ordering can come back in.
Orderings(S) ==
    {s \in [1..Cardinality(S) -> S] : Range(s) = S}

\* The queryset of subscriptions: User.objects.filter(following__user=u)
\* in the api package, in User's ordering; Follow.objects.filter(user=u)
\* in users/views.py, where Follow has no ordering.
SubscriptionQuerysets(impl, user) ==
    LET authors == {e[2] : e \in {f \in follows : f[1] = user}}
    IN  IF impl = "api"
          THEN {SelectSeq(User_objects, LAMBDA a : a \in authors)}
          ELSE Orderings(authors)

\* GET /users/subscriptions/ behind IsAuthenticated: the page of authors,
\* each serialized with recipes_count and recipes.  An exception in a
\* serializer method is a 500.
Subscriptions(impl, user, q) ==
    IF user = AnonymousUser
      THEN ReadAnswer("subscriptions", impl, user, q,
                      [status |-> 401, body |-> NoBody])
      ELSE \E queryset \in SubscriptionQuerysets(impl, user) :
             LET page == paginate_queryset(queryset, q.limit, q.page)
             IN  IF page.status # 200
                   THEN ReadAnswer("subscriptions", impl, user, q, page)
                   ELSE \E embedded \in
                            [DOMAIN page.body.results ->
                                UNION {get_recipes(impl, a, q.recipes_limit) :
                                          a \in users}] :
                          /\ \A i \in DOMAIN embedded :
                                embedded[i] \in
                                  get_recipes(impl, page.body.results[i],
                                              q.recipes_limit)
                          /\ IF \E i \in DOMAIN embedded :
                                   embedded[i] = Raised
                               THEN ReadAnswer("subscriptions", impl, user, q,
                                        [status |-> 500, body |-> NoBody])
                               ELSE ReadAnswer("subscriptions", impl, user, q,
                                        [status |-> 200,
                                         body |->
                                           [count |-> page.body.count,
                                            results |->
                                              [i \in DOMAIN embedded |->
                                                [id |-> page.body.results[i],
                                                 recipes_count |->
                                                   get_recipes_count(
                                                     page.body.results[i]),
                                                 recipes |-> embedded[i]]]]])

(***************************************************************************)
(* SpecRead: one GET of a list against databases of three users and two    *)
(* recipes that differ in the authors of the recipes, in the favorites and *)
(* in whom alice follows.                                                  *)
(***************************************************************************)
Limits == {Absent, Text, Number(0), Number(1), Number(2)}

RecipeQueries ==
    {[NoQuery EXCEPT !.author = a, !.tags = t, !.is_favorited = f,
                     !.is_in_shopping_cart = c, !.limit = l, !.page = p] :
        a \in {"", "bob", Carol, "nobody"},
        t \in SUBSET Range(Slug) \cup {MissingSlugs},
        f \in {"", "1"}, c \in {"", "0"}, l \in Limits, p \in 1..2}

PageQueries ==
    {[NoQuery EXCEPT !.limit = l, !.page = p] : l \in Limits, p \in 1..2}

SubscriptionQueries ==
    {[NoQuery EXCEPT !.limit = l, !.page = p, !.recipes_limit = n] :
        l \in Limits, p \in 1..2,
        n \in {Absent, Text} \cup {Number(k) : k \in (-1)..3}}

InitRead ==
    /\ \E a1 \in {"bob", Carol}, a2 \in {"bob", Carol} :
          recipes =
            (1 :> [author |-> a1, cooking_time |-> MIN_COOKING_TIME,
                   short_code |-> 1]) @@
            (2 :> [author |-> a2, cooking_time |-> MAX_COOKING_TIME,
                   short_code |-> 2])
    /\ next_id = 3
    /\ recipe_tags = {<<1, 1>>, <<2, 1>>, <<2, 2>>}
    /\ recipe_ingredients =
          RowsOf(1, <<[id |-> 1, amount |-> MIN_AMOUNT]>>) \cup
          RowsOf(2, <<[id |-> 2, amount |-> MIN_AMOUNT]>>)
    /\ favorites \in {{<<"alice", 1>>, <<"bob", 2>>},
                       {<<"alice", 1>>, <<"alice", 2>>}}
    /\ shopping_cart = {<<"alice", 2>>}
    /\ follows \in SUBSET {<<"alice", "bob">>, <<"alice", Carol>>}
    /\ response = NoResponse
    /\ users = User \cup {Carol}
    /\ pending = NoPending
    /\ row_bags = NoRows
    /\ ingredient_names = Spelled
    /\ accounts = FirstAccounts

NextRead ==
    /\ response = NoResponse
    /\ \/ \E user \in Requesters, q \in RecipeQueries :
             RecipeList("recipes", user, q)
       \/ \E impl \in {"api", "users"}, user \in Requesters,
             q \in PageQueries : UserList(impl, user, q)
       \/ \E impl \in {"api", "users"}, user \in Requesters,
             q \in SubscriptionQueries : Subscriptions(impl, user, q)

SpecRead == InitRead /\ [][NextRead]_vars


(***************************************************************************)
(* The inserts of Favorite, ShoppingCart and Follow rows statement by      *)
(* statement: the SELECT of the handler's existence check when the request *)
(* starts, then the INSERT.  Both packages check and insert the same way.  *)
(* The tables are bags here, so that a second copy of a row could be       *)
(* told from the first; the sets of rows follow the bags.                  *)
(***************************************************************************)
CopiesOf(model, row) == CopiesIn(row, row_bags[model])

RowTargets(model) == IF model = "Follow" THEN users ELSE DOMAIN recipes

RowOp(model, method) ==
    IF model = "Follow"
      THEN (IF method = "POST" THEN "subscribe" ELSE "unsubscribe")
      ELSE OpName(model, method)

\* The package besides api that serves the table.
Packages(model) == {"api", IF model = "Follow" THEN "users" ELSE "recipes"}

\* A table without its UniqueConstraint.
unique_row_Unconstrained(model, user, target) == TRUE

\* unique_favorite, unique_shopping_cart, unique_follow.
unique_row(model, user, target) == CopiesOf(model, <<user, target>>) = 0

\* prevent_self_follow: CheckConstraint(~Q(user=F('author'))).
prevent_self_follow(model, user, target) ==
    model = "Follow" => user # target

SetRows(model, bag) ==
    /\ row_bags' = [row_bags EXCEPT ![model] = bag]
    /\ favorites' =
          IF model = "Favorite" THEN BagToSet(bag) ELSE favorites
    /\ shopping_cart' =
          IF model = "ShoppingCart" THEN BagToSet(bag) ELSE shopping_cart
    /\ follows' = IF model = "Follow" THEN BagToSet(bag) ELSE follows

\* POST .../favorite/, .../shopping_cart/, .../subscribe/ up to the INSERT:
\* authentication, get_object_or_404, the self-follow test and the
\* exists() test of the serializer or the view.
StartAddRow(c, impl, model, user, target) ==
    /\ pending[c] = Idle
    /\ impl \in Packages(model)
    /\ UNCHANGED <<relationVars, users, row_bags, ingredient_names,
                   accounts>>
    /\ IF user = AnonymousUser
         THEN Turned(RowOp(model, "POST"), impl, user, target, NoData, 401)
         ELSE IF target \notin RowTargets(model)
           THEN Turned(RowOp(model, "POST"), impl, user, target, NoData, 404)
           ELSE IF \/ model = "Follow" /\ user = target
                   \/ CopiesOf(model, <<user, target>>) > 0
             THEN Turned(RowOp(model, "POST"), impl, user, target, NoData,
                         400)
             ELSE /\ Goto(c, [pc |-> "row", op |-> RowOp(model, "POST"),
                              impl |-> impl, user |-> user, id |-> target,
                              data |-> NoData, model |-> model])
                  /\ UNCHANGED <<recipeVars, response>>

\* The INSERT of model.objects.create / serializer.save(): the database
\* raises IntegrityError on a row that breaks a constraint.
StepRow(c) ==
    LET r == pending[c]
    IN  /\ r.pc = "row"
        /\ UNCHANGED <<recipeVars, users, ingredient_names, accounts>>
        /\ IF /\ unique_row(r.model, r.user, r.id)
              /\ prevent_self_follow(r.model, r.user, r.id)
             THEN /\ SetRows(r.model,
                             row_bags[r.model] (+) SetToBag({<<r.user, r.id>>}))
                  /\ Finish(c, 201)
             ELSE /\ UNCHANGED <<relationVars, row_bags>>
                  /\ Finish(c, 500)

\* DELETE of the same routes: one filter(...).delete() statement.
RemoveRows(c, impl, model, user, target) ==
    LET answer(status) ==
            response' = Answer(RowOp(model, "DELETE"), impl, user, target,
                               NoData, status, NoBody)
    IN  /\ pending[c] = Idle
        /\ impl \in Packages(model)
        /\ UNCHANGED <<recipeVars, users, ingredient_names, accounts>>
        /\ pending' = [pending EXCEPT ![c] = Done]
        /\ IF user = AnonymousUser
             THEN UNCHANGED <<relationVars, row_bags>> /\ answer(401)
             ELSE IF target \notin RowTargets(model)
               THEN UNCHANGED <<relationVars, row_bags>> /\ answer(404)
               ELSE IF CopiesOf(model, <<user, target>>) = 0
                 THEN UNCHANGED <<relationVars, row_bags>> /\ answer(400)
                 ELSE /\ SetRows(model,
                            [row \in BagToSet(row_bags[model])
                                      \ {<<user, target>>}
                                |-> row_bags[model][row]])
                      /\ answer(204)

(***************************************************************************)
(* SpecRace: two clients, each with one request that adds or removes a     *)
(* Favorite, ShoppingCart or Follow row or updates the ingredients of      *)
(* alice's recipe, their statements interleaved in every order.            *)
(***************************************************************************)
RowModels == {"Favorite", "ShoppingCart", "Follow"}

\* The recipes and users a request names, stored or not.
RaceTargets(model) ==
    IF model = "Follow" THEN User \cup {"nobody"} ELSE 1..MaxRecipes

NextRace ==
    \/ \E c \in Clients, impl \in {"api", "recipes", "users"},
          model \in RowModels, user \in Requesters :
          \E target \in RaceTargets(model) :
          StartAddRow(c, impl, model, user, target)
    \/ \E c \in Clients : StepRow(c)
    \/ \E c \in Clients, impl \in {"api", "recipes", "users"},
          model \in RowModels, user \in Requesters :
          \E target \in RaceTargets(model) :
          RemoveRows(c, impl, model, user, target)
    \/ \E c \in Clients, impl \in {"api", "recipes"}, data \in WritableData :
          StartRecipeUpdate(c, impl, "PATCH", "alice", 1, data)
    \/ \E c \in Clients : StepSave(c)
    \/ \E c \in Clients : StepTags(c)
    \/ \E c \in Clients : StepDelete(c)
    \/ \E c \in Clients : StepBulkCreate(c)
    \/ \E c \in Clients : StepCreateRow(c)

SpecRace == InitValidate /\ [][NextRace]_vars


(***************************************************************************)
(* GET /ingredients/?name=s (AllowAny, no pagination): IngredientFilter,   *)
(* a CharFilter on name with lookup_expr='icontains'.                      *)
(***************************************************************************)
\* Longest ingredient name and longest name parameter, in letters.
MaxNameLen == 2

\* The letters names and parameters are written with.
Alphabet == {"a", "A", "b"}

Names == UNION {[1..k -> Alphabet] : k \in 1..MaxNameLen}

\* The database's UPPER() on one letter.
UPPER_letter(ch) ==
    IF ch = "a" THEN "A" ELSE IF ch = "b" THEN "B" ELSE ch

UPPER(str) == [i \in DOMAIN str |-> UPPER_letter(str[i])]

\* str LIKE '%pattern%'
LIKE(str, pattern) ==
    \E k \in 0..(Len(str) - Len(pattern)) :
       SubSeq(str, k + 1, k + Len(pattern)) = pattern

\* The lookup compared letter for letter, as contains does.
icontains_CaseSensitive(name, value) == LIKE(name, value)

\* The icontains lookup: UPPER(name) LIKE UPPER('%value%').
icontains(name, value) == LIKE(UPPER(name), UPPER(value))

\* CharFilter.filter: an empty value leaves the queryset as it is.
IngredientFilter(queryset, value) ==
    IF value = <<>>
      THEN queryset
      ELSE {i \in queryset : icontains(ingredient_names[i], value)}

\* IngredientViewSet.list (recipes/views.py).
IngredientList(user, value) ==
    /\ UNCHANGED <<recipeVars, relationVars, stepVars>>
    /\ response' = Answer("list_ingredients", "recipes", user, 0,
                          [name |-> value], 200,
                          IngredientFilter(DOMAIN Ingredient, value))

(***************************************************************************)
(* SpecIngredients: one GET /ingredients/ with any name parameter against  *)
(* any spelling of the two ingredient rows.                                *)
(***************************************************************************)
InitIngredients ==
    /\ recipes = <<>>
    /\ next_id = 1
    /\ recipe_tags = {}
    /\ recipe_ingredients = {}
    /\ favorites = {}
    /\ shopping_cart = {}
    /\ follows = {}
    /\ response = NoResponse
    /\ users = User
    /\ pending = NoPending
    /\ row_bags = NoRows
    /\ ingredient_names \in [DOMAIN Ingredient -> Names]
    /\ accounts = FirstAccounts

NextIngredients ==
    /\ response = NoResponse
    /\ \E user \in Requesters, value \in Names \cup {<<>>} :
          IngredientList(user, value)

SpecIngredients == InitIngredients /\ [][NextIngredients]_vars


(***************************************************************************)
(* GET /recipes/{id}/get-link/ (IsAuthenticated in both packages).         *)
(***************************************************************************)
\* get_object() that finds a row for every pk.
get_object_Any(pk) == TRUE

\* self.get_object(): Http404 when no recipe has the pk.
get_object(pk) == pk \in DOMAIN recipes

\* Recipe.get_short_url: request.build_absolute_uri(f'/recipes/{self.id}/').
\* A link is written as the path before the key, the key, and what follows.
Api_get_short_url(id) == [path |-> "/recipes/", key |-> id, tail |-> "/"]

\* recipes/views.py: base_url.rstrip('/') + f'/recipes/{recipe.id}'.
Recipes_get_short_url(id) == [path |-> "/recipes/", key |-> id, tail |-> ""]

get_link(impl, user, pk) ==
    /\ UNCHANGED <<recipeVars, relationVars, stepVars>>
    /\ response' =
          IF user = AnonymousUser
            THEN Answer("get_link", impl, user, pk, NoData, 401, NoBody)
            ELSE IF ~get_object(pk)
              THEN Answer("get_link", impl, user, pk, NoData, 404, NoBody)
              ELSE Answer("get_link", impl, user, pk, NoData, 200,
                          IF impl = "api" THEN Api_get_short_url(pk)
                                          ELSE Recipes_get_short_url(pk))

(***************************************************************************)
(* SpecLookup: one request that names a recipe or a user by id, stored or  *)
(* not, against two recipes with any two short codes and a few favorites,  *)
(* cart rows and subscriptions.                                            *)
(***************************************************************************)
InitLookup ==
    /\ \E c1 \in Codes : \E c2 \in Codes \ {c1} :
          recipes = [TwoRecipes EXCEPT ![1].short_code = c1,
                                       ![2].short_code = c2]
    /\ next_id = 3
    /\ recipe_tags = {<<1, 1>>, <<2, 1>>, <<2, 2>>}
    /\ recipe_ingredients =
          RowsOf(1, <<[id |-> 1, amount |-> MIN_AMOUNT]>>) \cup
          RowsOf(2, <<[id |-> 2, amount |-> MIN_AMOUNT]>>)
    /\ favorites \in SUBSET {<<"alice", 1>>, <<"bob", 2>>}
    /\ shopping_cart \in SUBSET {<<"alice", 2>>}
    /\ follows \in SUBSET {<<"alice", "bob">>}
    /\ response = NoResponse
    /\ Quiet

NextLookup ==
    /\ response = NoResponse
    /\ UNCHANGED stepVars
    /\ \/ \E impl \in {"api", "recipes"}, user \in Requesters,
             pk \in RecipeTargets : get_link(impl, user, pk)
       \/ \E user \in Requesters, id \in RecipeTargets :
             \/ ApiFavorite(user, id)
             \/ ApiDeleteFavorite(user, id)
             \/ ApiShoppingCart(user, id)
             \/ ApiDeleteShoppingCart(user, id)
       \/ \E method \in {"POST", "DELETE"}, user \in Requesters,
             id \in RecipeTargets :
             \/ RecipesFavorite(method, user, id)
             \/ RecipesShoppingCart(method, user, id)
       \/ \E user \in Requesters, pk \in UserTargets :
             \/ ApiSubscribe(user, pk)
             \/ ApiUnsubscribe(user, pk)
       \/ \E method \in {"POST", "DELETE"}, user \in Requesters,
             pk \in UserTargets : UsersSubscribe(method, user, pk)

SpecLookup == InitLookup /\ [][NextLookup]_vars


(***************************************************************************)
(* The users endpoints that write a User row.  first_name stands for the   *)
(* text columns (email, username, first_name, last_name), which the        *)
(* serializers treat alike.                                                *)
(***************************************************************************)
UserAnswer(op, impl, user, pk, data, status) ==
    response' = Answer(op, impl, user, pk, data, status, NoBody)

\* UserSerializer of the api package: first_name and avatar are writable.
Api_UserSerializer_update(row, data) ==
    [first_name |-> IF "first_name" \in data.keys
                      THEN data.first_name ELSE row.first_name,
     avatar |-> IF "avatar" \in data.keys THEN data.avatar ELSE row.avatar,
     password |-> row.password]

\* UserSerializer of the users package: avatar is read_only.
Users_UserSerializer_update(row, data) ==
    [first_name |-> IF "first_name" \in data.keys
                      THEN data.first_name ELSE row.first_name,
     avatar |-> row.avatar,
     password |-> row.password]

\* PUT / PATCH /users/{pk}/: the update and partial_update the api
\* package's UserViewSet inherits from ModelViewSet, behind
\* IsAuthenticated; get_object() is looked up in User.objects.all().
ApiUserUpdate(method, user, pk, data) ==
    LET op == IF method = "PUT" THEN "update_user"
                                ELSE "partial_update_user"
    IN  /\ method \in {"PUT", "PATCH"}
        /\ UNCHANGED <<recipeVars, relationVars, users, pending, row_bags,
                       ingredient_names>>
        /\ IF user = AnonymousUser
             THEN UNCHANGED accounts
                  /\ UserAnswer(op, "api", user, pk, data, 401)
             ELSE IF pk \notin users
               THEN UNCHANGED accounts
                    /\ UserAnswer(op, "api", user, pk, data, 404)
               ELSE IF method = "PUT" /\ "first_name" \notin data.keys
                 THEN UNCHANGED accounts
                      /\ UserAnswer(op, "api", user, pk, data, 400)
                 ELSE /\ accounts' =
                            [accounts EXCEPT ![pk] =
                                Api_UserSerializer_update(@, data)]
                      /\ UserAnswer(op, "api", user, pk, data, 200)

\* PATCH /users/me/ of the users package.
UsersMe(user, data) ==
    /\ UNCHANGED <<recipeVars, relationVars, users, pending, row_bags,
                   ingredient_names>>
    /\ IF user = AnonymousUser
         THEN UNCHANGED accounts
              /\ UserAnswer("me", "users", user, user, data, 401)
         ELSE /\ accounts' = [accounts EXCEPT ![user] =
                                 Users_UserSerializer_update(@, data)]
              /\ UserAnswer("me", "users", user, user, data, 200)

\* PUT (and POST in the users package) and DELETE /users/me/avatar/.
\* AvatarSerializer: avatar is required and may be null.
Avatar(impl, method, user, data) ==
    /\ method \in {"PUT", "DELETE"}
    /\ UNCHANGED <<recipeVars, relationVars, users, pending, row_bags,
                   ingredient_names>>
    /\ IF user = AnonymousUser
         THEN UNCHANGED accounts
              /\ UserAnswer("avatar", impl, user, user, data, 401)
         ELSE IF method = "DELETE"
           THEN /\ accounts' = [accounts EXCEPT ![user].avatar = ""]
                /\ UserAnswer("delete_avatar", impl, user, user, data, 204)
           ELSE IF "avatar" \notin data.keys
             THEN UNCHANGED accounts
                  /\ UserAnswer("avatar", impl, user, user, data, 400)
             ELSE /\ accounts' = [accounts EXCEPT ![user].avatar = data.avatar]
                  /\ UserAnswer("avatar", impl, user, user, data, 200)

\* validate_password: the validators of settings.AUTH_PASSWORD_VALIDATORS,
\* which accept the sample passwords.
validate_password(value) == TRUE

\* UserViewSet.set_password of the api package.  "" is a password that is
\* missing or blank.
Api_set_password(user, data) ==
    /\ UNCHANGED <<recipeVars, relationVars, users, pending, row_bags,
                   ingredient_names>>
    /\ IF user = AnonymousUser
         THEN UNCHANGED accounts
              /\ UserAnswer("set_password", "api", user, user, data, 401)
         ELSE IF data.current_password = "" \/ data.new_password = ""
           THEN UNCHANGED accounts
                /\ UserAnswer("set_password", "api", user, user, data, 400)
           ELSE IF ~check_password(data.current_password,
                                   accounts[user].password)
             THEN UNCHANGED accounts
                  /\ UserAnswer("set_password", "api", user, user, data, 400)
             ELSE /\ accounts' =
                        [accounts EXCEPT ![user].password =
                            make_password(data.new_password)]
                  /\ UserAnswer("set_password", "api", user, user, data, 204)

\* UserViewSet.set_password of the users package: PasswordSerializer, both
\* fields required and not blank, validate_current_password,
\* validate_password on the new one, save().
Users_set_password(user, data) ==
    /\ UNCHANGED <<recipeVars, relationVars, users, pending, row_bags,
                   ingredient_names>>
    /\ IF user = AnonymousUser
         THEN UNCHANGED accounts
              /\ UserAnswer("set_password", "users", user, user, data, 401)
         ELSE IF \/ data.current_password = ""
                 \/ data.new_password = ""
                 \/ ~check_password(data.current_password,
                                    accounts[user].password)
                 \/ ~validate_password(data.new_password)
           THEN UNCHANGED accounts
                /\ UserAnswer("set_password", "users", user, user, data, 400)
           ELSE /\ accounts' =
                      [accounts EXCEPT ![user].password =
                          make_password(data.new_password)]
                /\ UserAnswer("set_password", "users", user, user, data, 204)

(***************************************************************************)
(* SpecUsers: one request on the users endpoints by alice, by bob or       *)
(* without credentials, against accounts with any of two passwords each.   *)
(***************************************************************************)
Passwords == {"p1", "p2"}

UserBodies ==
    [keys : SUBSET {"first_name", "avatar"}, first_name : {"new name"},
     avatar : {"new.png"}]

PasswordBodies ==
    [current_password : Passwords \cup {""},
     new_password : Passwords \cup {""}]

InitUsers ==
    /\ recipes = <<>>
    /\ next_id = 1
    /\ recipe_tags = {}
    /\ recipe_ingredients = {}
    /\ favorites = {}
    /\ shopping_cart = {}
    /\ follows = {}
    /\ response = NoResponse
    /\ users = User
    /\ pending = NoPending
    /\ row_bags = NoRows
    /\ ingredient_names = Spelled
    /\ \E pa \in Passwords, pb \in Passwords, avatar \in {"", "old.png"} :
          accounts = [FirstAccounts EXCEPT
                         !["alice"].password = make_password(pa),
                         !["alice"].avatar = avatar,
                         !["bob"].password = make_password(pb)]

NextUsers ==
    /\ response = NoResponse
    /\ \/ \E method \in {"PUT", "PATCH"}, user \in Requesters,
             pk \in UserTargets, data \in UserBodies :
             ApiUserUpdate(method, user, pk, data)
       \/ \E user \in Requesters, pk \in UserTargets :
             ApiUserDestroy(user, pk)
       \/ \E user \in Requesters, data \in UserBodies : UsersMe(user, data)
       \/ \E impl \in {"api", "users"}, method \in {"PUT", "DELETE"},
             user \in Requesters, data \in UserBodies :
             Avatar(impl, method, user, data)
       \/ \E user \in Requesters, data \in PasswordBodies :
             Api_set_password(user, data)
       \/ \E user \in Requesters, data \in PasswordBodies :
             Users_set_password(user, data)

SpecUsers == InitUsers /\ [][NextUsers]_vars


(***************************************************************************)
(* Claims.                                                                 *)
(***************************************************************************)
Successful == {200, 201, 204}

\* C1: every stored recipe has a non-empty short_code, no two stored
\* recipes share one, and no create, update or destroy request changes the
\* short_code of a recipe that stays stored.
C1_ShortCode ==
    /\ [](\A r \in DOMAIN recipes :
            /\ recipes[r].short_code \in Codes
            /\ \A q \in DOMAIN recipes :
                  recipes[q].short_code = recipes[r].short_code => q = r)
    /\ [][\A r \in DOMAIN recipes \cap DOMAIN recipes' :
             recipes'[r].short_code = recipes[r].short_code]_vars

\* Two recipes are stored and one of them has just been updated.
C1_Witness ==
    /\ Cardinality(DOMAIN recipes) = 2
    /\ response.op \in {"update", "partial_update"}
    /\ response.status = 200


\* What the claims call a request body that is valid in its other fields.
Repeats(s) == \E i, j \in DOMAIN s : i # j /\ s[i] = s[j]

IdsOf(l) == [i \in DOMAIN l |-> l[i].id]

GoodIngredients(data) ==
    /\ "ingredients" \in data.keys
    /\ data.ingredients # <<>>
    /\ ~Repeats(IdsOf(data.ingredients))
    /\ \A i \in DOMAIN data.ingredients :
          /\ data.ingredients[i].id \in DOMAIN Ingredient
          /\ data.ingredients[i].amount >= MIN_AMOUNT
          /\ data.ingredients[i].amount <= MAX_AMOUNT

GoodTags(data) ==
    /\ "tags" \in data.keys
    /\ data.tags # <<>>
    /\ ~Repeats(data.tags)
    /\ \A i \in DOMAIN data.tags : data.tags[i] \in Tag

GoodCookingTime(data) ==
    /\ "cooking_time" \in data.keys
    /\ data.cooking_time >= MIN_COOKING_TIME
    /\ data.cooking_time <= MAX_COOKING_TIME

\* The request just answered is a recipe create by a logged-in user.
CreateAnswered == response.op = "create" /\ response.user \in User

NothingCreated ==
    /\ recipes' = recipes
    /\ recipe_tags' = recipe_tags
    /\ recipe_ingredients' = recipe_ingredients

\* C2: a create whose ingredients list is empty or names an ingredient id
\* twice is answered 400 and leaves the Recipe rows, the tag links and the
\* RecipeIngredient rows as they were.
C2_IngredientsEmptyOrRepeated ==
    [][(/\ CreateAnswered'
        /\ "ingredients" \in response'.data.keys
        /\ \/ response'.data.ingredients = <<>>
           \/ Repeats(IdsOf(response'.data.ingredients)))
       => (response'.status = 400 /\ NothingCreated)]_vars

\* A create with the same ingredient twice, and nothing else wrong, was
\* refused.
C2_Witness ==
    /\ CreateAnswered
    /\ response.status = 400
    /\ Len(response.data.ingredients) = 2
    /\ response.data.ingredients[1].id = response.data.ingredients[2].id
    /\ response.data.ingredients[1].id \in DOMAIN Ingredient
    /\ \A i \in 1..2 : response.data.ingredients[i].amount = MIN_AMOUNT
    /\ GoodTags(response.data)
    /\ GoodCookingTime(response.data)

\* C3: a create whose tags list is empty or names a tag id twice is
\* answered 400 and leaves the Recipe rows as they were.
C3_TagsEmptyOrRepeated ==
    [][(/\ CreateAnswered'
        /\ "tags" \in response'.data.keys
        /\ \/ response'.data.tags = <<>>
           \/ Repeats(response'.data.tags))
       => (response'.status = 400 /\ recipes' = recipes)]_vars

\* A create with the same tag twice, and nothing else wrong, was refused.
C3_Witness ==
    /\ CreateAnswered
    /\ response.status = 400
    /\ Len(response.data.tags) = 2
    /\ response.data.tags[1] = response.data.tags[2]
    /\ GoodIngredients(response.data)
    /\ GoodCookingTime(response.data)

\* C4: a create with cooking_time below MIN_COOKING_TIME or above
\* MAX_COOKING_TIME is answered 400 and stores nothing; a create with
\* cooking_time equal to MIN_COOKING_TIME or to MAX_COOKING_TIME, and valid
\* ingredients and tags, is answered 201 and stores the recipe with that
\* cooking_time.
C4_CookingTimeBounds ==
    [][(CreateAnswered' /\ "cooking_time" \in response'.data.keys)
       => /\ (\/ response'.data.cooking_time < MIN_COOKING_TIME
              \/ response'.data.cooking_time > MAX_COOKING_TIME)
             => (response'.status = 400 /\ NothingCreated)
          /\ (/\ response'.data.cooking_time
                    \in {MIN_COOKING_TIME, MAX_COOKING_TIME}
              /\ GoodIngredients(response'.data)
              /\ GoodTags(response'.data))
             => /\ response'.status = 201
                /\ DOMAIN recipes' = DOMAIN recipes \cup {response'.target}
                /\ response'.target \notin DOMAIN recipes
                /\ recipes'[response'.target].cooking_time
                      = response'.data.cooking_time]_vars

\* A create at the upper boundary was accepted.
C4_Witness ==
    /\ CreateAnswered
    /\ response.status = 201
    /\ response.data.cooking_time = MAX_COOKING_TIME
    /\ response.target \in DOMAIN recipes
    /\ recipes[response.target].cooking_time = MAX_COOKING_TIME

\* C5: a create or update that supplies an ingredient amount below
\* MIN_AMOUNT or above MAX_AMOUNT is not carried out, and every stored
\* RecipeIngredient row has MIN_AMOUNT <= amount <= MAX_AMOUNT.
C5_AmountBounds ==
    /\ (/\ response.op \in {"create", "update", "partial_update"}
        /\ "ingredients" \in response.data.keys
        /\ \E i \in DOMAIN response.data.ingredients :
              \/ response.data.ingredients[i].amount < MIN_AMOUNT
              \/ response.data.ingredients[i].amount > MAX_AMOUNT)
       => response.status \notin Successful
    /\ \A x \in recipe_ingredients :
          MIN_AMOUNT <= x.amount /\ x.amount <= MAX_AMOUNT

\* C6: a create whose ingredients list names an id that no Ingredient row
\* has is answered 400 and leaves the Recipe and RecipeIngredient rows as
\* they were.
C6_MissingIngredient ==
    [][(/\ CreateAnswered'
        /\ "ingredients" \in response'.data.keys
        /\ \E i \in DOMAIN response'.data.ingredients :
              response'.data.ingredients[i].id \notin DOMAIN Ingredient)
       => /\ response'.status = 400
          /\ recipes' = recipes
          /\ recipe_ingredients' = recipe_ingredients]_vars

\* A create naming only a missing ingredient, and nothing else wrong, was
\* refused.
C6_Witness ==
    /\ CreateAnswered
    /\ response.status = 400
    /\ Len(response.data.ingredients) = 1
    /\ response.data.ingredients[1].id \in MissingIngredientIds
    /\ response.data.ingredients[1].amount = MIN_AMOUNT
    /\ GoodTags(response.data)
    /\ GoodCookingTime(response.data)


FavoriteOps == {"favorite", "delete_favorite"}

CartOps == {"shopping_cart", "delete_shopping_cart"}

AddOps == {"favorite", "shopping_cart"}

\* What the contract asks of a POST or DELETE of pair row on a table that
\* goes from before to after.
Toggled(op, row, before, after, status) ==
    IF op \in AddOps
      THEN IF row \notin before
             THEN status = 201 /\ after = before \cup {row}
             ELSE status = 400 /\ after = before
      ELSE IF row \in before
             THEN status = 204 /\ after = before \ {row}
             ELSE status = 400 /\ after = before

\* C7: a favorite or shopping_cart POST by a logged-in user on a stored
\* recipe answers 201 and adds the pair exactly when the pair was absent,
\* else answers 400 and changes nothing; a DELETE answers 204 and removes
\* the pair exactly when it was present, else answers 400 and changes
\* nothing; a POST that follows a successful DELETE of the same pair
\* answers 201.
C7_MembershipToggle ==
    [][(/\ response'.op \in FavoriteOps \cup CartOps
        /\ response'.user \in User
        /\ response'.target \in DOMAIN recipes)
       => /\ IF response'.op \in FavoriteOps
               THEN Toggled(response'.op,
                            <<response'.user, response'.target>>,
                            favorites, favorites', response'.status)
               ELSE Toggled(response'.op,
                            <<response'.user, response'.target>>,
                            shopping_cart, shopping_cart', response'.status)
          /\ (/\ response.status = 204
              /\ response.user = response'.user
              /\ response.target = response'.target
              /\ \/ response.op = "delete_favorite"
                    /\ response'.op = "favorite"
                 \/ response.op = "delete_shopping_cart"
                    /\ response'.op = "shopping_cart")
             => response'.status = 201]_vars

\* A second POST of a pair that is stored was refused.
C7_Witness ==
    /\ response.op = "favorite"
    /\ response.status = 400
    /\ <<response.user, response.target>> \in favorites

\* C8: a favorite or shopping_cart POST or DELETE by user u on recipe r
\* leaves every Favorite and ShoppingCart pair other than <<u, r>> as it
\* was, and leaves the table of the other model untouched.
C8_OnlyOwnPair ==
    [][response'.op \in FavoriteOps \cup CartOps
       => /\ \A row \in favorites \cup favorites' \cup
                        shopping_cart \cup shopping_cart' :
                row # <<response'.user, response'.target>>
                => /\ row \in favorites' <=> row \in favorites
                   /\ row \in shopping_cart' <=> row \in shopping_cart
          /\ response'.op \in FavoriteOps => shopping_cart' = shopping_cart
          /\ response'.op \in CartOps => favorites' = favorites]_vars

\* A pair was deleted while the other user held the same recipe and the
\* requester held another recipe.
C8_Witness ==
    /\ response.op \in {"delete_favorite", "delete_shopping_cart"}
    /\ response.status = 204
    /\ LET table == IF response.op = "delete_favorite"
                      THEN favorites ELSE shopping_cart
       IN  /\ \E row \in table :
                row[1] # response.user /\ row[2] = response.target
           /\ \E row \in table :
                row[1] = response.user /\ row[2] # response.target

\* C9: subscribe by logged-in user u on existing user a answers 201 and
\* adds the edge <<u, a>> exactly when u # a and the edge is absent, else
\* answers 400 and leaves Follow as it was; unsubscribe answers 204 and
\* removes exactly that edge when it is present, else answers 400 and
\* leaves Follow as it was.
C9_Subscribe ==
    [][(/\ response'.op \in {"subscribe", "unsubscribe"}
        /\ response'.user \in User
        /\ response'.target \in User)
       => LET edge == <<response'.user, response'.target>>
          IN  IF response'.op = "subscribe"
                THEN IF response'.user # response'.target
                        /\ edge \notin follows
                       THEN /\ response'.status = 201
                            /\ follows' = follows \cup {edge}
                       ELSE /\ response'.status = 400
                            /\ follows' = follows
                ELSE IF edge \in follows
                       THEN /\ response'.status = 204
                            /\ follows' = follows \ {edge}
                       ELSE /\ response'.status = 400
                            /\ follows' = follows]_vars

\* A user's subscribe to themselves was refused while they follow the
\* other user.
C9_Witness ==
    /\ response.op = "subscribe"
    /\ response.status = 400
    /\ response.user = response.target
    /\ \E edge \in follows : edge[1] = response.user

\* The RecipeIngredient rows of the recipes in a user's shopping cart.
CartRows(user) ==
    {x \in recipe_ingredients : <<user, x.recipe>> \in shopping_cart}

NameUnit(x) ==
    <<Ingredient[x.ingredient].name, Ingredient[x.ingredient].measurement_unit>>

RECURSIVE Total(_)
Total(rows) ==
    IF rows = {}
      THEN 0
      ELSE LET x == CHOOSE y \in rows : TRUE
           IN  x.amount + Total(rows \ {x})

\* C10: the downloaded list holds exactly one line for every (name, unit)
\* that occurs in a recipe of the requester's shopping cart, its amount the
\* sum of the amounts of that ingredient over the cart's recipes, and no
\* other line.
C10_ShoppingList ==
    (response.op = "download_shopping_cart" /\ response.status = 200)
    => LET rows == CartRows(response.user)
           lines == BagToSet(response.body)
       IN  /\ \A x \in rows :
                 \E line \in lines :
                    /\ <<line.name, line.measurement_unit>> = NameUnit(x)
                    /\ line.amount =
                          Total({y \in rows : NameUnit(y) = NameUnit(x)})
           /\ \A line \in lines :
                 /\ CopiesIn(line, response.body) = 1
                 /\ \E x \in rows :
                       <<line.name, line.measurement_unit>> = NameUnit(x)
                 /\ \A other \in lines :
                       (/\ other.name = line.name
                        /\ other.measurement_unit = line.measurement_unit)
                       => other = line

\* A list was downloaded for a cart of two recipes that both need
\* ingredient 1, in different amounts, and one of which needs ingredient 2.
C10_Witness ==
    /\ response.op = "download_shopping_cart"
    /\ response.status = 200
    /\ \E x, y \in CartRows(response.user) :
          /\ x.recipe # y.recipe
          /\ x.ingredient = y.ingredient
          /\ x.amount # y.amount
    /\ \E x \in CartRows(response.user) : x.ingredient = 2
    /\ Cardinality(BagToSet(response.body)) = 2


\* C11: a recipe a read endpoint returns has at least one tag and at least
\* one RecipeIngredient row, whatever other request is in flight.
C11_ReadableComplete ==
    (response.op = "retrieve" /\ response.status = 200)
    => /\ response.body.tags # {}
       /\ response.body.ingredients # {}

UpdateOps == {"update", "partial_update"}

TagsOf(id) == {l[2] : l \in {x \in recipe_tags : x[1] = id}}

IngredientsOf(id) == {x \in recipe_ingredients : x.recipe = id}

\* C12: after an update answered 200 whose body carries ingredients L and
\* tags T, the recipe's RecipeIngredient rows are exactly the (ingredient,
\* amount) pairs of L and its tags exactly the ids of T.
C12_UpdateReplaces ==
    (/\ response.op \in UpdateOps
     /\ response.status = 200
     /\ {"ingredients", "tags"} \subseteq response.data.keys)
    => /\ IngredientsOf(response.target) =
             {[recipe |-> response.target,
               ingredient |-> response.data.ingredients[i].id,
               amount |-> response.data.ingredients[i].amount] :
                 i \in DOMAIN response.data.ingredients}
       /\ TagsOf(response.target) =
             {response.data.tags[i] : i \in DOMAIN response.data.tags}

\* An update succeeded whose lists name neither the ingredient nor the tag
\* the recipe had before it (ingredient 1, tag 1).
C12_Witness ==
    /\ response.op \in UpdateOps
    /\ response.status = 200
    /\ response.target = 1
    /\ response.data.ingredients = <<[id |-> 2, amount |-> MAX_AMOUNT]>>
    /\ response.data.tags = <<2>>
    /\ IngredientsOf(1) # {}

\* C13: a PATCH by the recipe's author whose body lacks the ingredients
\* list or the tags list, or carries an empty one, is answered 400 and
\* leaves the recipe's row, its tags and its RecipeIngredient rows as they
\* were.
C13_PatchNeedsBothLists ==
    [][(/\ response'.op = "partial_update"
        /\ response'.target \in DOMAIN recipes
        /\ response'.user = recipes[response'.target].author
        /\ \/ "ingredients" \notin response'.data.keys
           \/ response'.data.ingredients = <<>>
           \/ "tags" \notin response'.data.keys
           \/ response'.data.tags = <<>>)
       => (/\ response'.status = 400
           /\ recipes' = recipes
           /\ recipe_tags' = recipe_tags
           /\ recipe_ingredients' = recipe_ingredients)]_vars

\* The author's PATCH of cooking_time alone was refused by the handlers of
\* recipes/views.py.
C13_Witness ==
    /\ response.op = "partial_update"
    /\ response.impl = "recipes"
    /\ response.user = "alice"
    /\ response.target = 1
    /\ response.data.keys = {"cooking_time"}
    /\ response.data.cooking_time = MAX_COOKING_TIME
    /\ response.status = 400
    /\ recipes[1].cooking_time = MIN_COOKING_TIME

\* C14: an update or a delete of a stored recipe is answered with success
\* only to the recipe's author; to anyone else, logged in or not, it is
\* answered 401 or 403 and leaves every table as it was; a POST without
\* credentials is answered 401 or 403 and creates nothing.
C14_AuthorOnly ==
    [][/\ (/\ response'.op \in UpdateOps \cup {"destroy"}
           /\ response'.target \in DOMAIN recipes)
          => /\ response'.status \in Successful
                   => response'.user = recipes[response'.target].author
             /\ response'.user # recipes[response'.target].author
                   => /\ response'.status \in {401, 403}
                      /\ UNCHANGED <<recipeVars, relationVars>>
       /\ (response'.op = "create" /\ response'.user = AnonymousUser)
          => /\ response'.status \in {401, 403}
             /\ NothingCreated]_vars

\* bob's valid PATCH of alice's recipe was refused by the handlers of the
\* api package.
C14_Witness ==
    /\ response.op = "partial_update"
    /\ response.impl = "api"
    /\ response.user = "bob"
    /\ response.target = 1
    /\ recipes[1].author = "alice"
    /\ Api_is_valid(response.data, TRUE)
    /\ response.status = 403

\* C15: every RecipeIngredient row, tag link, Favorite row and ShoppingCart
\* row names a stored recipe, every Favorite, ShoppingCart and Follow row
\* names stored users, and every recipe a stored author: a delete of a
\* recipe or of a user takes the rows that name it along.
C15_NoDanglingRow ==
    /\ \A x \in recipe_ingredients : x.recipe \in DOMAIN recipes
    /\ \A l \in recipe_tags : l[1] \in DOMAIN recipes
    /\ \A f \in favorites \cup shopping_cart :
          f[1] \in users /\ f[2] \in DOMAIN recipes
    /\ \A e \in follows : e[1] \in users /\ e[2] \in users
    /\ \A r \in DOMAIN recipes : recipes[r].author \in users

\* bob was deleted, and his recipe with him, while alice still has her
\* recipe in her favorites.
C15_Witness ==
    /\ response.op = "destroy_user"
    /\ response.status = 204
    /\ response.target = "bob"
    /\ users = {"alice"}
    /\ DOMAIN recipes = {1}
    /\ favorites = {<<"alice", 1>>}

\* The recipes that satisfy every predicate a query supplies: author by
\* exact match, tags by carrying at least one requested slug, the two
\* membership flags by the requester's own rows, and only for a requester
\* who is logged in.
Matching(user, q) ==
    {id \in DOMAIN recipes :
        /\ q.author # "" => recipes[id].author = q.author
        /\ q.tags # {} => \E t \in TagsOf(id) : Slug[t] \in q.tags
        /\ (q.is_favorited # "" /\ user # AnonymousUser)
              => <<user, id>> \in favorites
        /\ (q.is_in_shopping_cart # "" /\ user # AnonymousUser)
              => <<user, id>> \in shopping_cart}

NoRepeats(seq) ==
    \A i \in DOMAIN seq, j \in DOMAIN seq : seq[i] = seq[j] => i = j

\* C16: a recipe list answered 200 counts exactly the recipes that satisfy
\* every supplied predicate, its page holds only such recipes, each once,
\* and holds all of them when the page is as long as the count; a query of
\* an anonymous requester with is_favorited or is_in_shopping_cart is not
\* answered with an error, and the two parameters do not restrict it.
C16_FilterConjunction ==
    response.op = "list" =>
      /\ response.status = 200 =>
           /\ response.body.count =
                 Cardinality(Matching(response.user, response.data))
           /\ Range(response.body.results)
                 \subseteq Matching(response.user, response.data)
           /\ NoRepeats(response.body.results)
           /\ Len(response.body.results) = response.body.count
                 => Range(response.body.results)
                       = Matching(response.user, response.data)
      /\ (/\ response.user = AnonymousUser
          /\ response.data.tags \subseteq Range(Slug)
          /\ response.data.author \in users \cup {""})
            => response.status \in {200, 404}

\* alice asked for her favorites that carry breakfast or dinner: recipe 2
\* carries both slugs and is listed once, beside recipe 1.
C16_Witness ==
    /\ response.op = "list"
    /\ response.status = 200
    /\ response.user = "alice"
    /\ response.data.tags = {"breakfast", "dinner"}
    /\ response.data.is_favorited = "1"
    /\ response.data.author = ""
    /\ response.body.count = 2
    /\ Len(response.body.results) = 2
    /\ Range(response.body.results) = {1, 2}

\* C19: a subscriptions list answered 200 counts exactly the users the
\* requester follows and its page holds only such users, each once; every
\* entry's recipes_count is the number of that author's recipes whatever
\* recipes_limit is, its embedded recipes are all by that author, and when
\* recipes_limit is a number n >= 0 there are min(n, recipes_count) of them.
C19_Subscriptions ==
    (response.op = "subscriptions" /\ response.status = 200) =>
      LET followed == {a \in users : <<response.user, a>> \in follows}
          by(a) == {id \in DOMAIN recipes : recipes[id].author = a}
          n == response.data.recipes_limit
      IN  /\ response.user # AnonymousUser
          /\ response.body.count = Cardinality(followed)
          /\ \A i \in DOMAIN response.body.results :
                LET entry == response.body.results[i]
                IN  /\ entry.id \in followed
                    /\ \A j \in DOMAIN response.body.results :
                          response.body.results[j].id = entry.id => i = j
                    /\ entry.recipes_count = Cardinality(by(entry.id))
                    /\ Range(entry.recipes) \subseteq by(entry.id)
                    /\ NoRepeats(entry.recipes)
                    /\ (n.kind = "int" /\ n.value >= 0)
                          => Len(entry.recipes) =
                               IF n.value < entry.recipes_count
                                 THEN n.value
                                 ELSE entry.recipes_count
          /\ Len(response.body.results) = response.body.count
                => {response.body.results[i].id :
                       i \in DOMAIN response.body.results} = followed

\* alice follows bob and carol, bob wrote both recipes, and she asked for
\* one recipe per author: bob's entry counts 2 and embeds 1.
C19_Witness ==
    /\ response.op = "subscriptions"
    /\ response.impl = "api"
    /\ response.status = 200
    /\ response.user = "alice"
    /\ response.data.recipes_limit = Number(1)
    /\ Len(response.body.results) = 2
    /\ \E i \in DOMAIN response.body.results :
          /\ response.body.results[i].id = "bob"
          /\ response.body.results[i].recipes_count = 2
          /\ Len(response.body.results[i].recipes) = 1

\* The largest page the pagination class allows: max_page_size, and the
\* default page size where the class sets none.
PageCap == IF max_page_size = 0 THEN PAGE_SIZE ELSE max_page_size

\* C20: whatever limit is, a page of recipes, of users or of subscriptions
\* answered 200 holds no more items than the page-size cap.
C20_PageSizeCap ==
    (response.op \in {"list", "list_users", "subscriptions"}
        /\ response.status = 200)
      => Len(response.body.results) <= PageCap

\* Two letters that differ at most in case.
SameLetter(x, y) == x = y \/ {x, y} = {"a", "A"} \/ {x, y} = {"b", "B"}

\* pattern occurs in str as a run of letters, case ignored.
Occurs(pattern, str) ==
    \E k \in 0..(Len(str) - Len(pattern)) :
       \A j \in 1..Len(pattern) : SameLetter(str[k + j], pattern[j])

\* C17: GET /ingredients/?name=s is answered with exactly the ingredients
\* whose name contains s as a substring when letter case is ignored.
C17_IngredientNameFilter ==
    response.op = "list_ingredients" =>
      /\ response.status = 200
      /\ response.body =
            {i \in DOMAIN Ingredient :
                Occurs(response.data.name, ingredient_names[i])}

\* The parameter "A" found the ingredient spelled "ba" and left out the
\* one spelled "b".
C17_Witness ==
    /\ response.op = "list_ingredients"
    /\ response.data.name = <<"A">>
    /\ ingredient_names[1] = <<"b", "a">>
    /\ ingredient_names[2] = <<"b">>
    /\ response.body = {1}

\* C18: whatever the order in which the statements of concurrent requests
\* run, no table holds two Favorite rows or two ShoppingCart rows of one
\* (user, recipe) pair, two RecipeIngredient rows of one (recipe,
\* ingredient) pair or two Follow rows of one (user, author) pair, and no
\* Follow row has user = author.
C18_UniqueRows ==
    /\ \A model \in DOMAIN row_bags :
          \A row \in BagToSet(row_bags[model]) : CopiesOf(model, row) <= 1
    /\ \A row \in BagToSet(row_bags["Follow"]) \cup follows : row[1] # row[2]
    /\ \A x \in recipe_ingredients, y \in recipe_ingredients :
          (x.recipe = y.recipe /\ x.ingredient = y.ingredient) => x = y

\* Two requests of alice for the same favorite both passed the existence
\* check; the second INSERT was refused by the database and one row is
\* stored.
C18_Witness ==
    /\ response.op = "favorite"
    /\ response.user = "alice"
    /\ response.target = 1
    /\ response.status = 500
    /\ \A c \in Clients : pending[c] = Done
    /\ CopiesOf("Favorite", <<"alice", 1>>) = 1
    /\ favorites = {<<"alice", 1>>}

\* C21: the link GET /recipes/{id}/get-link/ answers with carries the
\* recipe's short_code as its key, so that the recipe whose short_code the
\* link names is the recipe asked for.
C21_LinkFromShortCode ==
    (response.op = "get_link" /\ response.status = 200) =>
      /\ response.body.key = recipes[response.target].short_code
      /\ \A r \in DOMAIN recipes :
            recipes[r].short_code = response.body.key => r = response.target

\* The requests that name a recipe by id, and those that name a user.
RecipeRouteOps ==
    {"favorite", "delete_favorite", "shopping_cart", "delete_shopping_cart",
     "get_link"}

UserRouteOps == {"subscribe", "unsubscribe"}

C23_LoserGets400 ==
    response.op \in {"favorite", "shopping_cart", "subscribe"} =>
      /\ response.status \in {201, 400, 401, 404}
      /\ \A model \in DOMAIN row_bags :
            \A row \in BagToSet(row_bags[model]) : CopiesOf(model, row) = 1

\* C24: when two creates have drawn the same token and both passed the
\* existence check of Recipe.save, the INSERT of the one that comes second
\* fails as a write error and stores nothing, the INSERT of a code no row
\* holds stores the recipe with that code, and at no time do two stored
\* recipes share a short_code.
C24_CollisionIsWriteError ==
    /\ [](\A r \in DOMAIN recipes, q \in DOMAIN recipes :
             recipes[r].short_code = recipes[q].short_code => r = q)
    /\ [][\A c \in Clients :
             (pending[c].pc = "insert" /\ pending'[c] # pending[c]) =>
                IF ShortCodeExists(pending[c].short_code)
                  THEN /\ response'.status = 500
                       /\ UNCHANGED recipeVars
                  ELSE /\ DOMAIN recipes' = DOMAIN recipes \cup {next_id}
                       /\ recipes'[next_id].short_code =
                             pending[c].short_code]_vars

\* Both clients' creates have finished, the second with a write error:
\* one recipe is stored.
C24_Witness ==
    /\ \A c \in Clients : pending[c] = Done
    /\ response.op = "create"
    /\ response.status = 500
    /\ DOMAIN recipes = {1}
    /\ recipes[1].short_code \in Codes

\* A stored recipe has the code.
InUse(code) == \E r \in DOMAIN recipes : recipes[r].short_code = code

\* C25: with a fair draw and at least one token that no stored recipe has,
\* the loop of Recipe.save ends, and the code it ends with is one no
\* stored recipe had when it was tested; with every token in use the loop
\* never ends.
C25_DrawLoop ==
    /\ \A c \in Clients :
          (pending[c].pc = "draw" /\ \E code \in Codes : ~InUse(code))
             ~> (pending[c].pc = "assigned")
    /\ [](\A c \in Clients :
             pending[c].pc = "assigned" => ~InUse(pending[c].short_code))
    /\ [](\A c \in Clients :
             (\A code \in Codes : InUse(code)) => pending[c].pc # "assigned")

\* One save has left the loop with code 3, the only one free, while the
\* other is testing code 1, which recipe 1 has.
C25_Witness ==
    /\ DOMAIN recipes = {1, 2}
    /\ recipes[1].short_code = 1
    /\ recipes[2].short_code = 2
    /\ pending["c1"].pc = "assigned"
    /\ pending["c1"].short_code = 3
    /\ pending["c2"].pc = "exists"
    /\ pending["c2"].code = 1

\* C26: once the two concurrent requests have finished, the
\* RecipeIngredient rows of the recipe they updated are exactly the rows of
\* one request's ingredients list: never rows of both lists, never none.
C26_OneListWins ==
    (\A c \in Clients : pending[c] = Done) =>
      {x \in recipe_ingredients : x.recipe = 1}
         \in {RowsOf(1, d.ingredients) : d \in WritableData}

\* C27: no request of one user to the users endpoints deletes the row of
\* another user or changes any of its columns.
C27_OwnAccountOnly ==
    [][\A v \in users :
          (response'.user # v /\ response'.user # AnonymousUser)
             => /\ v \in users'
                /\ accounts'[v] = accounts[v]]_vars

\* C30: set_password stores new_password as the requester's password only
\* when current_password is the stored one; a request of a logged-in user
\* whose current_password is missing or wrong, or whose new_password is
\* missing, is answered 400 and changes no password.
C30_SetPassword ==
    [][response'.op = "set_password" =>
         LET u == response'.user
             data == response'.data
         IN  /\ \A v \in DOMAIN accounts :
                   accounts'[v] # accounts[v] =>
                      /\ v = u
                      /\ accounts[u].password =
                            <<"hash", data.current_password>>
                      /\ accounts'[u] =
                            [accounts[u] EXCEPT
                                !.password = <<"hash", data.new_password>>]
                      /\ response'.status = 204
             /\ (/\ u # AnonymousUser
                 /\ \/ data.current_password = ""
                    \/ accounts[u].password # <<"hash", data.current_password>>
                    \/ data.new_password = "")
                  => /\ response'.status = 400
                     /\ accounts' = accounts
             /\ response'.status = 204 =>
                   accounts'[u].password = <<"hash", data.new_password>>]_vars

\* alice, whose password is p1, sent p2 as her current password through
\* the api package and was refused; her password is still p1.
C30_Witness ==
    /\ response.op = "set_password"
    /\ response.impl = "api"
    /\ response.user = "alice"
    /\ response.data.current_password = "p2"
    /\ response.data.new_password = "p2"
    /\ response.status = 400
    /\ accounts["alice"].password = <<"hash", "p1">>


(***************************************************************************)
(* SpecAuthor: a create and then an update of a recipe, or an update of    *)
(* the recipe alice already has, with bodies that also carry an 'author'  *)
(* key naming some user.                                                   *)
(***************************************************************************)
AuthorBodies ==
    SampleData \cup
    {[d EXCEPT !.keys = @ \cup {"author"}] @@ [author |-> u] :
        d \in SampleData, u \in User}

InitAuthor ==
    /\ recipes = (1 :> [author |-> "alice",
                        cooking_time |-> MIN_COOKING_TIME,
                        short_code |-> 1])
    /\ next_id = 2
    /\ recipe_tags = {<<1, 1>>}
    /\ recipe_ingredients = {[recipe |-> 1, ingredient |-> 1,
                              amount |-> MIN_AMOUNT]}
    /\ favorites = {}
    /\ shopping_cart = {}
    /\ follows = {}
    /\ response = NoResponse
    /\ Quiet

NextAuthor ==
    \/ /\ response = NoResponse
       /\ \E user \in Requesters, data \in AuthorBodies :
             ApiRecipeCreate(user, data)
       /\ UNCHANGED stepVars
    \/ /\ response = NoResponse
       /\ \E user \in Requesters, data \in AuthorBodies :
             RecipesRecipeCreate(user, data)
       /\ UNCHANGED stepVars
    \/ /\ response.op \in {"none", "create"}
       /\ \E method \in {"PUT", "PATCH"}, user \in Requesters,
             id \in RecipeTargets, data \in AuthorBodies :
             ApiRecipeUpdate(method, user, id, data)
       /\ UNCHANGED stepVars
    \/ /\ response.op \in {"none", "create"}
       /\ \E method \in {"PUT", "PATCH"}, user \in Requesters,
             id \in RecipeTargets, data \in AuthorBodies :
             RecipesRecipeUpdate(method, user, id, data)
       /\ UNCHANGED stepVars

SpecAuthor == InitAuthor /\ [][NextAuthor]_vars

\* C28: a recipe that appears was created by an authenticated request and
\* has that request's user as its author, and a recipe that stays keeps its
\* author, whatever the body of the request held.
C28_AuthorIsCreator ==
    [][/\ \A id \in DOMAIN recipes' \ DOMAIN recipes :
             /\ response'.op = "create"
             /\ response'.user \in User
             /\ recipes'[id].author = response'.user
       /\ \A id \in DOMAIN recipes \cap DOMAIN recipes' :
             recipes'[id].author = recipes[id].author]_vars

\* bob has created recipe 2 and then updated it with a body that names
\* alice as the author.
C28_Witness ==
    /\ response.op \in {"update", "partial_update"}
    /\ response.status = 200
    /\ response.user = "bob"
    /\ response.target = 2
    /\ "author" \in response.data.keys
    /\ response.data.author = "alice"
    /\ recipes[2].author = "bob"


(***************************************************************************)
(* SpecShare: against every content of the carts and the favorites, one    *)
(* request that changes a cart, a favorite or the rows of a recipe, or one *)
(* download of the shopping list.                                          *)
(***************************************************************************)
InitShare ==
    /\ recipes = TwoRecipes
    /\ next_id = 3
    /\ recipe_tags = {<<1, 1>>, <<2, 1>>, <<2, 2>>}
    /\ recipe_ingredients =
          RowsOf(1, <<[id |-> 1, amount |-> MIN_AMOUNT]>>) \cup
          RowsOf(2, <<[id |-> 1, amount |-> MAX_AMOUNT],
                      [id |-> 2, amount |-> MIN_AMOUNT]>>)
    /\ favorites \in SUBSET (User \X DOMAIN TwoRecipes)
    /\ shopping_cart \in SUBSET (User \X DOMAIN TwoRecipes)
    /\ follows = {}
    /\ response = NoResponse
    /\ Quiet

NextShare ==
    /\ response = NoResponse
    /\ UNCHANGED stepVars
    /\ \/ \E user \in Requesters, id \in RecipeTargets :
             \/ ApiFavorite(user, id)
             \/ ApiDeleteFavorite(user, id)
             \/ ApiShoppingCart(user, id)
             \/ ApiDeleteShoppingCart(user, id)
       \/ \E method \in {"POST", "DELETE"}, user \in Requesters,
             id \in RecipeTargets :
             \/ RecipesFavorite(method, user, id)
             \/ RecipesShoppingCart(method, user, id)
       \/ \E user \in User, id \in DOMAIN recipes, data \in WritableData :
             \/ ApiRecipeUpdate("PATCH", user, id, data)
             \/ RecipesRecipeUpdate("PATCH", user, id, data)
       \/ \E user \in Requesters :
             \/ ApiDownloadShoppingCart(user)
             \/ RecipesDownloadShoppingCart(user)

SpecShare == InitShare /\ [][NextShare]_vars

\* The ShoppingCart rows of one user.
CartOf(user) == {c \in shopping_cart : c[1] = user}

\* C29: a request that leaves a user's shopping cart and the ingredient
\* rows of that cart's recipes as they were leaves the lines of the user's
\* shopping list as they were, whatever it does to the carts and favorites
\* of others and to other recipes; and a download answers those lines.
C29_OwnCartOnly ==
    [][/\ \A u \in User :
             (CartOf(u)' = CartOf(u) /\ CartRows(u)' = CartRows(u))
                => Annotate(u)' = Annotate(u)
       /\ (response'.op = "download_shopping_cart" /\ response'.status = 200)
             => BagToSet(response'.body) = Annotate(response'.user)]_vars

\* bob has taken recipe 2 out of his cart while alice's cart holds
\* recipe 1 only and bob has both recipes among his favorites.
C29_Witness ==
    /\ response.op = "delete_shopping_cart"
    /\ response.status = 204
    /\ response.user = "bob"
    /\ response.target = 2
    /\ CartOf("alice") = {<<"alice", 1>>}
    /\ {<<"bob", 1>>, <<"bob", 2>>} \subseteq favorites
    /\ Annotate("alice") # {}


====
